---- MODULE Spec2Model ----
(***************************************************************************)
(* The loan-approval decision pipeline of backend/graph and backend/agents *)
(* as a state machine: the six evaluators of agents/decision_agents.py,    *)
(* the LangGraph workflow of graph/agent_orchestrator.py that runs them in *)
(* order with an early exit, and the aggregator AgentZeta as a function of *)
(* a verdict list.                                                         *)
(***************************************************************************)
EXTENDS Integers, Sequences, FiniteSets, TLC

(***************************************************************************)
(* Unsigned multi-limb integers.  TLC's integers are 32 bits wide; the     *)
(* IEEE-754 doubles of the aggregator need 53-bit significands, so a big   *)
(* natural is a tuple of four limbs, least significant first, in base 2^22.*)
(***************************************************************************)
LimbBase == 2^22

BigZero == <<0, 0, 0, 0>>

BigAdd(x, y) ==
  LET s1 == x[1] + y[1]
      s2 == x[2] + y[2] + (s1 \div LimbBase)
      s3 == x[3] + y[3] + (s2 \div LimbBase)
      s4 == x[4] + y[4] + (s3 \div LimbBase)
  IN  <<s1 % LimbBase, s2 % LimbBase, s3 % LimbBase, s4>>

\* x - y for x >= y
BigSub(x, y) ==
  LET d1 == x[1] - y[1]
      b1 == IF d1 < 0 THEN 1 ELSE 0
      d2 == x[2] - y[2] - b1
      b2 == IF d2 < 0 THEN 1 ELSE 0
      d3 == x[3] - y[3] - b2
      b3 == IF d3 < 0 THEN 1 ELSE 0
      d4 == x[4] - y[4] - b3
  IN  <<d1 + b1 * LimbBase, d2 + b2 * LimbBase, d3 + b3 * LimbBase, d4>>

BigGE(x, y) ==
  IF x[4] # y[4] THEN x[4] > y[4]
  ELSE IF x[3] # y[3] THEN x[3] > y[3]
  ELSE IF x[2] # y[2] THEN x[2] > y[2]
  ELSE x[1] >= y[1]

\* x * s for a multiplier 0 <= s < 2^9
BigMulSmall(x, s) ==
  LET p1 == x[1] * s
      p2 == x[2] * s + (p1 \div LimbBase)
      p3 == x[3] * s + (p2 \div LimbBase)
      p4 == x[4] * s + (p3 \div LimbBase)
  IN  <<p1 % LimbBase, p2 % LimbBase, p3 % LimbBase, p4>>

RECURSIVE BigMulInt(_, _)
BigMulInt(x, n) ==
  IF n < 256 THEN BigMulSmall(x, n)
  ELSE BigAdd(BigMulSmall(BigMulInt(x, n \div 256), 256), BigMulSmall(x, n % 256))

BigFromInt(n) == BigMulInt(<<1, 0, 0, 0>>, n)

LimbBits(n) == IF n = 0 THEN 0 ELSE CHOOSE k \in 1..31 : 2^(k-1) <= n /\ (k = 31 \/ n < 2^k)

BitLen(x) ==
  IF x[4] # 0 THEN 66 + LimbBits(x[4])
  ELSE IF x[3] # 0 THEN 44 + LimbBits(x[3])
  ELSE IF x[2] # 0 THEN 22 + LimbBits(x[2])
  ELSE LimbBits(x[1])

(***************************************************************************)
(* IEEE-754 binary64 arithmetic, round-to-nearest-even, on the values the  *)
(* aggregator computes.  Every double it meets is 0 or lies in [2^-4, 2^7),*)
(* hence is a multiple of 2^-56; a double is held as the big natural       *)
(* v * 2^57 (one spare bit for the quotient's guard bit).                  *)
(***************************************************************************)
FracBits == 57 - 44

\* the integer n >= 0 as a double (exact for n < 2^9)
FFromInt(n) == BigMulSmall(<<0, 0, 2^FracBits, 0>>, n)

\* round the exact value x (sticky: a non-zero part below x's last bit was
\* dropped) to 53 significant bits, ties to even
RoundToDouble(x, sticky) ==
  LET k == BitLen(x) - 53
  IN  IF k <= 0 THEN x
      ELSE LET rem  == x[1] % (2^k)
               half == 2^(k-1)
               odd  == ((x[1] \div (2^k)) % 2) = 1
               down == <<x[1] - rem, x[2], x[3], x[4]>>
               up   == BigAdd(down, <<2^k, 0, 0, 0>>)
           IN  IF rem > half THEN up
               ELSE IF rem < half THEN down
               ELSE IF sticky \/ odd THEN up ELSE down

\* int * float: the int converts exactly, the product is rounded
FMulInt(s, w) == RoundToDouble(BigMulSmall(w, s), FALSE)

FAdd(a, b) == RoundToDouble(BigAdd(a, b), FALSE)

\* one step of restoring division on st = <<quotient, remainder>>: the next
\* quotient bit of remainder / b
DivStep(st, b) ==
  LET r2 == BigAdd(st[2], st[2])
      q2 == BigAdd(st[1], st[1])
  IN  IF BigGE(r2, b)
      THEN <<BigAdd(q2, <<1, 0, 0, 0>>), BigSub(r2, b)>>
      ELSE <<q2, r2>>

\* n >= 1 steps.  The halves keep the evaluation shallow, and binding mid
\* over a singleton makes TLC compute it once
RECURSIVE DivBits(_, _, _)
DivBits(st, b, n) ==
  IF n = 1 THEN DivStep(st, b)
  ELSE CHOOSE out \in { DivBits(mid, b, n - (n \div 2)) :
                          mid \in {DivBits(st, b, n \div 2)} } : TRUE

\* the integer part of a / b, for a / b < 2^7: <<quotient, remainder>>
RECURSIVE DivInt(_, _, _, _)
DivInt(q, r, b, j) ==
  LET bj == BigMulSmall(b, 2^j)
      hit == BigGE(r, bj)
      q2 == IF hit THEN q + 2^j ELSE q
      r2 == IF hit THEN BigSub(r, bj) ELSE r
  IN  IF j = 0 THEN <<q2, r2>> ELSE DivInt(q2, r2, b, j - 1)

\* a / b for doubles a >= 0, b > 0 with a / b < 2^7
FDiv(a, b) ==
  LET ip == DivInt(0, a, b, 6)
      fp == DivBits(<<<<ip[1], 0, 0, 0>>, ip[2]>>, b, 57)
  IN  RoundToDouble(fp[1], fp[2] # BigZero)

FGE(a, b) == BigGE(a, b)
FLT(a, b) == ~BigGE(a, b)

\* int(x) of a double x >= 0: truncation
FInt(x) == (x[3] \div (2^FracBits)) + x[4] * (2^(22 - FracBits))

(***************************************************************************)
(* agents/decision_agents.py: verdicts.  A verdict keeps the fields of     *)
(* AgentResult that decisions are made of.                                 *)
(***************************************************************************)
APPROVE == "approve"
REJECT == "reject"
REVIEW == "review"
AgentDecision == {APPROVE, REJECT, REVIEW}

Max(a, b) == IF a >= b THEN a ELSE b
Min(a, b) == IF a <= b THEN a ELSE b

\* variant: the confidence of a verdict is its score, no cap applied
AgentResult_confidence_uncapped(name, score, decision, confidence) ==
  [agent_name |-> name, score |-> score, decision |-> decision,
   confidence |-> score]

AgentResult(name, score, decision, confidence) ==
  [agent_name |-> name, score |-> score, decision |-> decision,
   confidence |-> confidence]

(***************************************************************************)
(* AgentZeta, the aggregator.                                              *)
(***************************************************************************)
\* the weight literals as doubles: 0.15 = 0x1.3333333333333p-3,
\* 0.20 = 0x1.999999999999ap-3, 0.25 = 0x1.0p-2, 0.1 = 0x1.999999999999ap-4
weights(agent_name) ==
  CASE agent_name = "AgentAlpha"   -> <<838860, 3355443, 1228, 0>>
    [] agent_name = "AgentBeta"    -> <<2516584, 1677721, 1638, 0>>
    [] agent_name = "AgentGamma"   -> <<0, 0, 2048, 0>>
    [] agent_name = "AgentDelta"   -> <<838860, 3355443, 1228, 0>>
    [] agent_name = "AgentEpsilon" -> <<0, 0, 2048, 0>>
    [] OTHER                       -> <<3355444, 838860, 819, 0>>

\* the for loop of _calculate_weighted_score from its i-th iteration on
RECURSIVE WeightedLoop(_, _, _, _)
WeightedLoop(results, i, weighted_sum, total_weight) ==
  IF i > Len(results) THEN <<weighted_sum, total_weight>>
  ELSE LET weight == weights(results[i].agent_name)
       IN  WeightedLoop(results, i + 1,
                        FAdd(weighted_sum, FMulInt(results[i].score, weight)),
                        FAdd(total_weight, weight))

\* variant: the weighted sum is not divided by the weight present
calculate_weighted_score_unnormalised(results) ==
  WeightedLoop(results, 1, BigZero, BigZero)[1]

calculate_weighted_score(results) ==
  LET sums == WeightedLoop(results, 1, BigZero, BigZero)
  IN  IF sums[2] # BigZero THEN FDiv(sums[1], sums[2]) ELSE BigZero

SetMin(S) == CHOOSE m \in S : \A x \in S : m <= x

rejections_of(all_results) ==
  {i \in 1..Len(all_results) : all_results[i].decision = REJECT}

reviews_of(all_results) ==
  {i \in 1..Len(all_results) : all_results[i].decision = REVIEW}

\* variant: a low weighted score without a veto is thresholded like a
\* component score
zeta_decision_thresholded(all_results, weighted_score) ==
  IF rejections_of(all_results) # {} THEN REJECT
  ELSE IF Cardinality(reviews_of(all_results)) >= 2 THEN REVIEW
  ELSE IF reviews_of(all_results) # {} /\ FLT(weighted_score, FFromInt(70)) THEN REVIEW
  ELSE IF FGE(weighted_score, FFromInt(70)) THEN APPROVE
  ELSE IF FGE(weighted_score, FFromInt(50)) THEN REVIEW
  ELSE REJECT

\* variant: the escalation on two or more REVIEW verdicts is missing
zeta_decision_no_escalation(all_results, weighted_score) ==
  IF rejections_of(all_results) # {} THEN REJECT
  ELSE IF reviews_of(all_results) # {} /\ FLT(weighted_score, FFromInt(70)) THEN REVIEW
  ELSE IF FGE(weighted_score, FFromInt(70)) THEN APPROVE
  ELSE REVIEW

\* variant: the approval bound is strict
zeta_decision_strict(all_results, weighted_score) ==
  IF rejections_of(all_results) # {} THEN REJECT
  ELSE IF Cardinality(reviews_of(all_results)) >= 2 THEN REVIEW
  ELSE IF reviews_of(all_results) # {} /\ FGE(FFromInt(70), weighted_score) THEN REVIEW
  ELSE IF FLT(FFromInt(70), weighted_score) THEN APPROVE
  ELSE REVIEW

\* "Decision logic": the decision of each branch
zeta_decision(all_results, weighted_score) ==
  IF rejections_of(all_results) # {} THEN REJECT
  ELSE IF Cardinality(reviews_of(all_results)) >= 2 THEN REVIEW
  ELSE IF reviews_of(all_results) # {} /\ FLT(weighted_score, FFromInt(70)) THEN REVIEW
  ELSE IF FGE(weighted_score, FFromInt(70)) THEN APPROVE
  ELSE REVIEW

\* variant: the score of the first rejecting verdict, not the least
zeta_score_first_rejection(all_results, weighted_score) ==
  IF rejections_of(all_results) # {}
  THEN all_results[SetMin(rejections_of(all_results))].score
  ELSE FInt(weighted_score)

\* "Decision logic": the score of each branch
zeta_score(all_results, weighted_score) ==
  IF rejections_of(all_results) # {}
  THEN SetMin({all_results[i].score : i \in rejections_of(all_results)})
  ELSE FInt(weighted_score)

\* variant: the confidence is not capped at 95
zeta_confidence_uncapped(all_results, weighted_score) ==
  IF all_results # <<>> THEN FInt(weighted_score) ELSE 0

zeta_confidence(all_results, weighted_score) ==
  IF all_results # <<>> THEN Min(95, FInt(weighted_score)) ELSE 0

AgentZeta_evaluate(all_results) ==
  LET weighted_score == IF all_results # <<>>
                        THEN calculate_weighted_score(all_results)
                        ELSE BigZero
  IN  [agent_name |-> "AgentZeta",
       score |-> Max(0, Min(100, zeta_score(all_results, weighted_score))),
       decision |-> zeta_decision(all_results, weighted_score),
       confidence |-> zeta_confidence(all_results, weighted_score),
       weighted_score |-> weighted_score]

(***************************************************************************)
(* The five component evaluators.  An application is a record of the six   *)
(* fields they read; pan, aadhaar and mobile are strings, held as          *)
(* sequences of one-character strings.  The random draws of an evaluator   *)
(* are parameters.                                                         *)
(***************************************************************************)
\* variant: the approval threshold is strict
decide_strict(score) ==
  IF score > 70 THEN APPROVE
  ELSE IF score >= 50 THEN REVIEW
  ELSE REJECT

\* application.get(key, default): the default when the dict has no such key
get(application, key, default) ==
  IF key \in DOMAIN application THEN application[key] ELSE default

\* variant: the issue is found but not reported
issue_dropped(condition, text) == <<>>

\* issues.append(text) under a condition
issue(condition, text) == IF condition THEN <<text>> ELSE <<>>

\* the verdict with explanation = "; ".join(issues) if issues else success,
\* kept as the list of the messages (their numbers left out)
explained(res, issues, success) ==
  [f \in DOMAIN res \cup {"explanation"} |->
     IF f = "explanation" THEN (IF issues # <<>> THEN issues ELSE <<success>>)
     ELSE res[f]]

\* "Determine decision": the threshold block every component evaluator ends with
decide(score) ==
  IF score >= 70 THEN APPROVE
  ELSE IF score >= 50 THEN REVIEW
  ELSE REJECT

\* variant: the penalties exclude one another (one elif chain)
AgentAlpha_evaluate_first_penalty(application) ==
  LET loan_amount == get(application, "loan_amount", 0)
      income == get(application, "income", 0)
      annual_income == income * 12
      ratio_penalty ==
        IF income > 0
        THEN IF loan_amount > 5 * annual_income THEN 30
             ELSE IF loan_amount > 4 * annual_income THEN 15
             ELSE 0
        ELSE 40
      tenure == get(application, "tenure", 0)
      tenure_penalty ==
        IF ratio_penalty # 0 THEN 0
        ELSE IF tenure < 6 THEN 25 ELSE IF tenure > 360 THEN 15 ELSE 0
      amount_penalty ==
        IF ratio_penalty # 0 \/ tenure_penalty # 0 THEN 0
        ELSE IF loan_amount < 10000 THEN 30
        ELSE IF loan_amount > 50000000 THEN 20
        ELSE 0
      score == 100 - ratio_penalty - tenure_penalty - amount_penalty
  IN  explained(AgentResult("AgentAlpha", Max(0, score), decide(score), Min(95, score)),
                <<>>, "Application validated successfully")

\* ratio = loan_amount / annual_income is compared with small integers; for
\* integers below 2^50 the rounded quotient exceeds k exactly when
\* loan_amount > k * annual_income
AgentAlpha_evaluate(application) ==
  LET loan_amount == get(application, "loan_amount", 0)
      income == get(application, "income", 0)
      annual_income == income * 12
      ratio_penalty ==
        IF income > 0
        THEN IF loan_amount > 5 * annual_income THEN 30
             ELSE IF loan_amount > 4 * annual_income THEN 15
             ELSE 0
        ELSE 40
      tenure == get(application, "tenure", 0)
      tenure_penalty ==
        IF tenure < 6 THEN 25 ELSE IF tenure > 360 THEN 15 ELSE 0
      amount_penalty ==
        IF loan_amount < 10000 THEN 30
        ELSE IF loan_amount > 50000000 THEN 20
        ELSE 0
      score == 100 - ratio_penalty - tenure_penalty - amount_penalty
      issues ==
        issue(ratio_penalty = 30, "Loan amount is x annual income (recommended max 5x)") \o
        issue(ratio_penalty = 15, "Loan amount is x annual income (slightly high)") \o
        issue(ratio_penalty = 40, "Income information not provided") \o
        issue(tenure_penalty = 25, "Tenure too short (minimum 6 months)") \o
        issue(tenure_penalty = 15, "Tenure exceeds 30 years maximum") \o
        issue(amount_penalty = 30, "Loan amount below minimum Rs.10,000") \o
        issue(amount_penalty = 20, "Loan amount exceeds Rs.5 Crore limit")
  IN  explained(AgentResult("AgentAlpha", Max(0, score), decide(score), Min(95, score)),
                issues, "Application validated successfully")

UpperCase == <<"A", "B", "C", "D", "E", "F", "G", "H", "I", "J", "K", "L", "M",
               "N", "O", "P", "Q", "R", "S", "T", "U", "V", "W", "X", "Y", "Z">>
LowerCase == <<"a", "b", "c", "d", "e", "f", "g", "h", "i", "j", "k", "l", "m",
               "n", "o", "p", "q", "r", "s", "t", "u", "v", "w", "x", "y", "z">>
Digits == {"0", "1", "2", "3", "4", "5", "6", "7", "8", "9"}
UpperLetters == {UpperCase[i] : i \in 1..26}

\* str.upper()
upper(str) ==
  [i \in 1..Len(str) |->
     IF \E j \in 1..26 : LowerCase[j] = str[i]
     THEN UpperCase[CHOOSE j \in 1..26 : LowerCase[j] = str[i]]
     ELSE str[i]]

\* re.match(r"^[A-Z]{5}[0-9]{4}[A-Z]$", str)
pan_pattern(str) ==
  /\ Len(str) = 10
  /\ \A i \in 1..5 : str[i] \in UpperLetters
  /\ \A i \in 6..9 : str[i] \in Digits
  /\ str[10] \in UpperLetters

\* re.sub(r'[\s-]', '', str)
IsSeparator(c) == c \in {" ", "-"}
strip_separators(str) == SelectSeq(str, LAMBDA c : ~IsSeparator(c))

\* str.isdigit()
isdigit(str) == str # <<>> /\ \A i \in 1..Len(str) : str[i] \in Digits

\* the value None of a field that holds a string otherwise
None == <<"None">>

\* an exception leaving a call instead of a return value
Raise(exception) == [agent_name |-> "raise", exception |-> exception]
IsRaise(res) == res.agent_name = "raise"

\* variant: a malformed contact number costs as much as a malformed identifier
AgentBeta_evaluate_contact_40(application) ==
  IF get(application, "aadhaar", <<>>) = None \/ get(application, "mobile", <<>>) = None
  THEN Raise("TypeError")
  ELSE
  LET pan == get(application, "pan", <<>>)
      pan_penalty ==
        IF pan = <<>> \/ pan = None \/ ~pan_pattern(upper(pan)) THEN 40 ELSE 0
      clean_aadhaar == strip_separators(get(application, "aadhaar", <<>>))
      aadhaar_penalty ==
        IF ~isdigit(clean_aadhaar) \/ Len(clean_aadhaar) # 12 THEN 40 ELSE 0
      clean_phone == strip_separators(get(application, "mobile", <<>>))
      phone_penalty ==
        IF isdigit(clean_phone) /\ Len(clean_phone) = 10 THEN 0 ELSE 40
      score == 100 - pan_penalty - aadhaar_penalty - phone_penalty
  IN  explained(AgentResult("AgentBeta", Max(0, score), decide(score), Min(98, score)),
                <<>>, "KYC verification successful")

\* re.sub(r'[\s-]', '', aadhaar) and re.sub(r'[\s-]', '', phone) raise TypeError
\* when the field is None; "if not pan" takes None as a missing PAN
AgentBeta_evaluate(application) ==
  IF get(application, "aadhaar", <<>>) = None \/ get(application, "mobile", <<>>) = None
  THEN Raise("TypeError")
  ELSE
  LET pan == get(application, "pan", <<>>)
      pan_missing == pan = <<>> \/ pan = None
      pan_penalty ==
        IF pan_missing THEN 40
        ELSE IF ~pan_pattern(upper(pan)) THEN 40
        ELSE 0
      clean_aadhaar == strip_separators(get(application, "aadhaar", <<>>))
      aadhaar_penalty ==
        IF clean_aadhaar = <<>> THEN 40
        ELSE IF ~isdigit(clean_aadhaar) \/ Len(clean_aadhaar) # 12 THEN 40
        ELSE 0
      clean_phone == strip_separators(get(application, "mobile", <<>>))
      phone_penalty ==
        IF clean_phone # <<>> /\ isdigit(clean_phone) /\ Len(clean_phone) = 10
        THEN 0 ELSE 20
      score == 100 - pan_penalty - aadhaar_penalty - phone_penalty
      issues ==
        issue(pan_missing, "PAN number not provided") \o
        issue(~pan_missing /\ pan_penalty = 40, "Invalid PAN format") \o
        issue(clean_aadhaar = <<>>, "Aadhaar number not provided") \o
        issue(clean_aadhaar # <<>> /\ aadhaar_penalty = 40,
              "Invalid Aadhaar format (must be 12 digits)") \o
        issue(phone_penalty = 20, "Invalid phone number format")
  IN  explained(AgentResult("AgentBeta", Max(0, score), decide(score), Min(98, score)),
                issues, "KYC verification successful")

\* _simulate_credit_score with the draw random.randint(-50, 50) as variance
simulate_credit_score(application, variance) ==
  LET income == get(application, "income", 0)
      base_score ==
        IF income >= 100000 THEN 700 + 50
        ELSE IF income >= 50000 THEN 700 + 30
        ELSE IF income >= 25000 THEN 700 + 10
        ELSE IF income < 15000 THEN 700 - 50
        ELSE 700
  IN  Max(300, Min(900, base_score + variance))

\* (1 + monthly_rate) ** tenure for monthly_rate = 0.01, in millionths, each
\* factor 1.01 truncated: below the true power by less than tenure millionths
GrowthOne == 10^6
RECURSIVE GrowthFrom(_, _)
GrowthFrom(g, n) ==
  IF n = 0 THEN g
  ELSE IF n = 1 THEN g + (g \div 100)
  ELSE CHOOSE out \in { GrowthFrom(mid, n - (n \div 2)) :
                          mid \in {GrowthFrom(g, n \div 2)} } : TRUE

Growth(tenure) == GrowthFrom(GrowthOne, tenure)

\* the tenures of the model: Growth, computed once for each
MaxTenure == 400
GrowthTable == [n \in 0..MaxTenure |-> Growth(n)]

\* emi_ratio > limit, where emi_ratio = (emi / income) * 100 if income > 0
\* else 100, and emi = loan_amount * r * (1+r)^n / ((1+r)^n - 1) with r = 0.01
\* if tenure > 0, else loan_amount / max(tenure, 1).  Multiplied out:
\* loan_amount * (1+r)^n > limit * income * ((1+r)^n - 1)
emi_ratio_exceeds(application, limit) ==
  LET loan_amount == get(application, "loan_amount", 0)
      tenure == get(application, "tenure", 12)
      income == get(application, "income", 1)
  IN  IF income > 0
      THEN IF tenure > 0
           THEN LET g == GrowthTable[tenure]
                    lhs == BigMulInt(BigFromInt(loan_amount), g)
                    rhs == BigMulInt(BigMulInt(BigFromInt(income), limit), g - GrowthOne)
                IN  lhs # rhs /\ BigGE(lhs, rhs)
           ELSE LET lhs == BigMulInt(BigFromInt(loan_amount), 100)
                    rhs == BigMulInt(BigFromInt(income), limit)
                IN  lhs # rhs /\ BigGE(lhs, rhs)
      ELSE 100 > limit

AgentGamma_evaluate(application, variance) ==
  LET credit_score == simulate_credit_score(application, variance)
      credit_penalty ==
        IF credit_score < 550 THEN 50
        ELSE IF credit_score < 650 THEN 30
        ELSE IF credit_score < 700 THEN 15
        ELSE 0
      emi_penalty ==
        IF emi_ratio_exceeds(application, 60) THEN 35
        ELSE IF emi_ratio_exceeds(application, 50) THEN 20
        ELSE IF emi_ratio_exceeds(application, 40) THEN 10
        ELSE 0
      score == 100 - credit_penalty - emi_penalty
      issues ==
        issue(credit_penalty = 50, "Very low credit score (min 550 recommended)") \o
        issue(credit_penalty = 30, "Low credit score (650+ preferred)") \o
        issue(credit_penalty = 15, "Below average credit score") \o
        issue(emi_penalty = 35, "EMI burden too high: % of income (max 60%)") \o
        issue(emi_penalty = 20, "EMI burden elevated: % of income") \o
        issue(emi_penalty = 10, "Moderate EMI burden: % of income")
  IN  explained(AgentResult("AgentGamma", Max(0, score), decide(score), Min(90, score)),
                issues, "Credit assessment passed")

\* variant: the minimum income check passes an income that is not positive
AgentDelta_evaluate_income_unchecked(application, stability_score) ==
  LET income == get(application, "income", 0)
      loan_amount == get(application, "loan_amount", 0)
      income_penalty ==
        IF income <= 0 THEN 0
        ELSE IF income < 15000 THEN 40
        ELSE IF income < 25000 THEN 20
        ELSE IF income < 35000 THEN 10
        ELSE 0
      loan_penalty == IF loan_amount > income * 12 * 5 THEN 15 ELSE 0
      stability_penalty == IF stability_score < 75 THEN 15 ELSE 0
      score == 100 - income_penalty - loan_penalty - stability_penalty
  IN  explained(AgentResult("AgentDelta", Max(0, score), decide(score), Min(85, score)),
                <<>>, "Income verified")

\* stability_score is the draw random.randint(70, 100)
AgentDelta_evaluate(application, stability_score) ==
  LET income == get(application, "income", 0)
      loan_amount == get(application, "loan_amount", 0)
      income_penalty ==
        IF income <= 0 THEN 50
        ELSE IF income < 15000 THEN 40
        ELSE IF income < 25000 THEN 20
        ELSE IF income < 35000 THEN 10
        ELSE 0
      annual_income == income * 12
      max_loan_recommended == annual_income * 5
      loan_penalty == IF loan_amount > max_loan_recommended THEN 15 ELSE 0
      stability_penalty == IF stability_score < 75 THEN 15 ELSE 0
      score == 100 - income_penalty - loan_penalty - stability_penalty
      issues ==
        issue(income_penalty = 50, "No income information provided") \o
        issue(income_penalty = 40, "Income below minimum Rs.15,000") \o
        issue(income_penalty = 20, "Income is on lower side") \o
        issue(income_penalty = 10, "Moderate income level") \o
        issue(loan_penalty = 15, "Loan exceeds recommended limit") \o
        issue(stability_penalty = 15, "Income stability appears lower than preferred")
  IN  explained(AgentResult("AgentDelta", Max(0, score), decide(score), Min(85, score)),
                issues, "Income verified")

\* variant: a blacklist hit is one more penalty taken off the fraud score
AgentEpsilon_evaluate_hit_subtracts(application, velocity_check, doc_score, blacklist_draw) ==
  LET income == get(application, "income", 0)
      loan_amount == get(application, "loan_amount", 0)
      round_penalty == IF income > 0 /\ income % 10000 = 0 THEN 5 ELSE 0
      ratio_penalty == IF income > 0 /\ loan_amount > income * 100 THEN 30 ELSE 0
      velocity_penalty ==
        IF velocity_check > 95 THEN 40
        ELSE IF velocity_check > 85 THEN 20
        ELSE 0
      doc_penalty == IF doc_score < 75 THEN 25 ELSE 0
      blacklist_penalty == IF blacklist_draw > 98 THEN 90 ELSE 0
      score == 100 - round_penalty - ratio_penalty - velocity_penalty - doc_penalty
                   - blacklist_penalty
  IN  explained(AgentResult("AgentEpsilon", Max(0, score), decide(score), Min(92, score)),
                <<>>, "No fraud indicators detected")

\* velocity_check and blacklist_draw are the two draws random.random(), in
\* hundredths; doc_score is the draw random.randint(70, 100)
AgentEpsilon_evaluate(application, velocity_check, doc_score, blacklist_draw) ==
  LET income == get(application, "income", 0)
      loan_amount == get(application, "loan_amount", 0)
      round_penalty == IF income > 0 /\ income % 10000 = 0 THEN 5 ELSE 0
      ratio_penalty == IF income > 0 /\ loan_amount > income * 100 THEN 30 ELSE 0
      velocity_penalty ==
        IF velocity_check > 95 THEN 40
        ELSE IF velocity_check > 85 THEN 20
        ELSE 0
      doc_penalty == IF doc_score < 75 THEN 25 ELSE 0
      blacklist_hit == blacklist_draw > 98
      fraud_score ==
        IF blacklist_hit THEN 10
        ELSE 100 - round_penalty - ratio_penalty - velocity_penalty - doc_penalty
      score == fraud_score
      risk_flags ==
        issue(ratio_penalty = 30, "Unusual loan-to-income ratio detected") \o
        issue(velocity_penalty = 40, "Multiple applications detected from same source") \o
        issue(velocity_penalty = 20, "Elevated application velocity") \o
        issue(doc_penalty = 25, "Document anomalies detected - manual review needed") \o
        issue(blacklist_hit, "Match found in fraud database - HIGH RISK")
  IN  explained(AgentResult("AgentEpsilon", Max(0, score), decide(score), Min(92, score)),
                risk_flags, "No fraud indicators detected")

(***************************************************************************)
(* graph/agent_orchestrator.py: the six-evaluator workflow.                *)
(***************************************************************************)
VARIABLES
  application_data,  \* AgentState.application_data
  application_id,    \* AgentState.application_id
  agent_results,     \* AgentState.agent_results
  agent_updates,     \* AgentState.agent_updates
  current_agent,     \* AgentState.current_agent
  status,            \* AgentState.status
  final_decision,    \* AgentState.final_decision ("" while the key is absent)
  pc,                \* the node the compiled graph runs next, or END
  executed,          \* history: the nodes that have returned in this run
  all_results,       \* the argument of a direct call AgentZeta.evaluate
  result,            \* what a direct call of an evaluator returned
  steps,             \* LoanState.steps
  credit_score,      \* LoanState.credit_score
  sanction_pdf_url,  \* LoanState.sanction_pdf_url
  error_message,     \* LoanState.error_message
  pdf_outcome,       \* history: what generate_sanction_letter did, once called
  call,              \* history: the evaluator of a direct call and its draws
  repeated,          \* what the same direct call returned when made again
  runs,              \* the states of the runs in progress at the same time
  stream_mode,       \* what a chunk of agent_workflow.astream holds
  pending,           \* run_agent_workflow_async: updates of the chunk not yet yielded
  yielded,           \* history: what run_agent_workflow_async has yielded
  events,            \* history: the events event_generator has yielded
  final_status,      \* event_generator.final_status
  stream_decision,   \* event_generator.final_decision
  current_idx,       \* event_generator.current_idx
  app,               \* the Application row as last committed
  evaluations,       \* the AgentEvaluation rows committed, by agent_name
  spc,               \* where event_generator is
  db_failed,         \* history: a commit has raised
  db_app,            \* routes.py, admin_routes.py: the Application row as stored
  response,          \* what the last request returned
  workflow_calls,    \* history: how many times run_loan_workflow was called
  status_history,    \* the StatusHistory rows
  served,            \* history: how many requests have been served
  agent_responses,   \* ChatState.agent_responses
  final_response,    \* ChatState.final_response
  processing_complete, \* ChatState.processing_complete
  session            \* chat_routes.py: the ConversationSession row of the session

\* the state of the sequential workflow of graph/loan_graph.py besides status
loan_vars == <<steps, credit_score, sanction_pdf_url, error_message>>

\* what a step of the six-evaluator workflow does not touch
\* the direct calls of an evaluator
direct_vars == <<call, repeated>>

\* api/streaming_routes.py: event_generator and what it persists
stream_vars == <<stream_mode, pending, yielded, events, final_status,
                 stream_decision, current_idx, app, evaluations, spc, db_failed>>

\* api/routes.py and api/admin_routes.py: the stored application and the
\* requests made on it
api_vars == <<db_app, response, workflow_calls, status_history, served>>

\* graph/chat_graph.py: the keys of ChatState that LoanState lacks, and the
\* conversation that api/chat_routes.py keeps
chat_vars == <<agent_responses, final_response, processing_complete, session>>

service_vars == <<api_vars, chat_vars>>

outside_vars == <<loan_vars, pdf_outcome, direct_vars, service_vars, runs, stream_vars>>

vars == <<application_data, application_id, agent_results, agent_updates, current_agent, status,
          final_decision, pc, executed, all_results, result, outside_vars>>

END == "END"
\* the run left invoke() with an exception instead of a final state
RAISED == "RAISED"
NoResult == [agent_name |-> "none"]

\* the bounded inputs
Incomes == {0, 12000, 20000, 30000, 50000, 100000}
LoanAmounts == {5000, 500000, 5000000, 60000000}
Tenures == {3, 60, MaxTenure}
Pans == { <<>>,
          <<"a", "b", "c", "d", "e", "1", "2", "3", "4", "f">>,
          <<"A", "B", "C", "D", "1", "2", "3", "4", "F">> }
Aadhaars == { <<>>, None,
              <<"1", "2", "3", "4", " ", "5", "6", "7", "8", " ", "9", "0", "1", "2">>,
              <<"1", "2", "3", "4", "5">> }
Mobiles == { <<>>,
             <<"9", "8", "7", "6", "5", "-", "4", "3", "2", "1", "0">>,
             <<"1", "2", "3", "4", "5">> }
Applications ==
  [income : Incomes, loan_amount : LoanAmounts, tenure : Tenures,
   pan : Pans, aadhaar : Aadhaars, mobile : Mobiles]

\* the draws: random.randint(-50, 50), random.randint(70, 100), and
\* random.random() in hundredths
VarianceDraws == -50..50
StabilityDraws == 70..100
DocDraws == {70, 74, 75, 100}
VelocityDraws == {0, 85, 86, 95, 96, 99}
BlacklistDraws == {0, 98, 99}

\* variant: a channel without a reducer, the update overwrites the list
add_overwrite(old, new) == new

\* Annotated[List, add]: the reducer of agent_results and agent_updates
add(old, new) == old \o new

update_of(res) == [agent |-> res.agent_name, status |-> "complete", result |-> res]

\* variant: the router never ends the run
route_always_continue(state_status) == "continue"

\* variant: the router ends the run on the status REJECTED
route_after_rejected(state_status) ==
  IF state_status = "REJECTED" THEN "end" ELSE "continue"

route_after_agent(state_status) ==
  IF state_status = "FAIL" THEN "end" ELSE "continue"

\* variant: "end" leads to the aggregator
conditional_edge_to_zeta(state_status, next) ==
  IF route_after_agent(state_status) = "end" THEN "zeta" ELSE next

\* add_conditional_edges(node, route_after_agent, {"continue": next, "end": END})
conditional_edge(state_status, next) ==
  IF route_after_agent(state_status) = "end" THEN END ELSE next

\* a node that writes the application back with the PAN in upper case
component_node_normalising(node, res, next) ==
  /\ pc = node
  /\ ~IsRaise(res)
  /\ LET new_status == IF res.decision = REJECT THEN "FAIL" ELSE status
     IN  /\ agent_results' = add(agent_results, <<res>>)
         /\ current_agent' = res.agent_name
         /\ agent_updates' = add(agent_updates, <<update_of(res)>>)
         /\ status' = new_status
         /\ pc' = conditional_edge(new_status, next)
         /\ executed' = Append(executed, node)
  /\ application_data' = [application_data EXCEPT !.pan = upper(@)]
  /\ UNCHANGED <<application_id, final_decision, all_results, result>>

\* the body shared by alpha_node .. epsilon_node, followed by the node's edge
\* a node has no try block: an exception of evaluate leaves the node and
\* invoke() with the state update never made
component_node(node, res, next) ==
  /\ pc = node
  /\ IF IsRaise(res)
     THEN /\ pc' = RAISED
          /\ UNCHANGED <<agent_results, current_agent, agent_updates, status,
                         executed>>
     ELSE LET new_status == IF res.decision = REJECT THEN "FAIL" ELSE status
          IN  /\ agent_results' = add(agent_results, <<res>>)
              /\ current_agent' = res.agent_name
              /\ agent_updates' = add(agent_updates, <<update_of(res)>>)
              /\ status' = new_status
              /\ pc' = conditional_edge(new_status, next)
              /\ executed' = Append(executed, node)
  /\ UNCHANGED <<application_data, application_id, final_decision, all_results,
                 result>>

alpha_node ==
  component_node("alpha", AgentAlpha_evaluate(application_data), "beta")

beta_node ==
  component_node("beta", AgentBeta_evaluate(application_data), "gamma")

gamma_node ==
  \E variance \in VarianceDraws :
    component_node("gamma", AgentGamma_evaluate(application_data, variance), "delta")

delta_node ==
  \E stability_score \in StabilityDraws :
    component_node("delta", AgentDelta_evaluate(application_data, stability_score),
                   "epsilon")

epsilon_node ==
  \E velocity_check \in VelocityDraws, doc_score \in DocDraws,
     blacklist_draw \in BlacklistDraws :
    component_node("epsilon",
                   AgentEpsilon_evaluate(application_data, velocity_check, doc_score,
                                         blacklist_draw),
                   "zeta")

\* variant: the map has no entry for REVIEW, which falls to the default
final_status_without_review(decision) ==
  CASE decision = APPROVE -> "SANCTIONED"
    [] decision = REJECT  -> "REJECTED"
    [] OTHER              -> "FAIL"

final_status_of(decision) ==
  CASE decision = APPROVE -> "SANCTIONED"
    [] decision = REJECT  -> "REJECTED"
    [] decision = REVIEW  -> "MANUAL_REVIEW"
    [] OTHER              -> "FAIL"

zeta_node ==
  LET res == AgentZeta_evaluate(agent_results)
  IN  /\ pc = "zeta"
      /\ agent_results' = add(agent_results, <<res>>)
      /\ current_agent' = "AgentZeta"
      /\ final_decision' = res.decision
      /\ status' = final_status_of(res.decision)
      /\ agent_updates' = add(agent_updates, <<update_of(res)>>)
      /\ pc' = END
      /\ executed' = Append(executed, "zeta")
      /\ UNCHANGED <<application_data, application_id, all_results, result>>

\* the sequential workflow is not running
InitLoanIdle ==
  /\ steps = <<>>
  /\ credit_score = 0
  /\ sanction_pdf_url = None
  /\ error_message = None

\* generate_sanction_letter has not been called
NotCalled == "not called"

\* no direct call has been made
InitDirectIdle ==
  /\ call = <<>>
  /\ repeated = NoResult

NoResponse == [request |-> "none"]

\* no application is stored and no request made; no chat run started
InitApiIdle ==
  /\ db_app = [status |-> "none"]
  /\ response = NoResponse
  /\ workflow_calls = 0
  /\ status_history = <<>>
  /\ served = 0

\* conversation_manager.get_session returns None
NoSession == [stage |-> "none"]

InitChatIdle ==
  /\ agent_responses = <<>>
  /\ final_response = ""
  /\ processing_complete = FALSE
  /\ session = NoSession

InitServiceIdle == InitApiIdle /\ InitChatIdle

\* no stream is open
InitStreamIdle ==
  /\ stream_mode = ""
  /\ pending = <<>>
  /\ yielded = <<>>
  /\ events = <<>>
  /\ final_status = ""
  /\ stream_decision = "None"
  /\ current_idx = 0
  /\ app = [status |-> "PENDING", current_agent |-> "None",
            final_decision |-> "None", sanction_pdf_path |-> None]
  /\ evaluations = <<>>
  /\ spc = "closed"
  /\ db_failed = FALSE

InitOutside ==
  /\ InitLoanIdle
  /\ pdf_outcome = NotCalled
  /\ InitDirectIdle
  /\ InitServiceIdle
  /\ runs = <<>>
  /\ InitStreamIdle

\* run_agent_workflow: initial_state, then the edge START -> alpha
Init ==
  /\ application_data \in Applications
  /\ application_id = 0
  /\ agent_results = <<>>
  /\ agent_updates = <<>>
  /\ current_agent = ""
  /\ status = "PROCESSING"
  /\ final_decision = ""
  /\ pc = "alpha"
  /\ executed = <<>>
  /\ all_results = <<>>
  /\ result = NoResult
  /\ InitOutside

Next ==
  \/ alpha_node /\ UNCHANGED outside_vars
  \/ beta_node /\ UNCHANGED outside_vars
  \/ gamma_node /\ UNCHANGED outside_vars
  \/ delta_node /\ UNCHANGED outside_vars
  \/ epsilon_node /\ UNCHANGED outside_vars
  \/ zeta_node /\ UNCHANGED outside_vars

Spec == Init /\ [][Next]_vars

(***************************************************************************)
(* graph/loan_graph.py: the sequential workflow sales -> verification ->   *)
(* underwriting -> sanction.  A node returns the keys it updates; LoanState *)
(* has no reducer, so every key returned overwrites.  An error message is  *)
(* None or a sequence of strings.                                          *)
(***************************************************************************)
\* the variables of the six-evaluator workflow that the sequential one lacks
agent_vars == <<agent_results, agent_updates, current_agent, final_decision,
                executed, all_results, result>>

\* what a step of the sequential workflow does not touch
loan_outside == <<agent_vars, application_id, direct_vars, service_vars, runs,
                  stream_vars>>

\* the checks of sales_node in the order they are made; pan.upper(),
\* aadhaar.isdigit() and mobile.isdigit() raise AttributeError on None
sales_errors(state) ==
  SelectSeq(<<"pan", "aadhaar", "loan_amount", "tenure", "income", "mobile">>,
            LAMBDA field :
              CASE field = "pan" -> ~pan_pattern(upper(state.pan))
                [] field = "aadhaar" ->
                     ~isdigit(state.aadhaar) \/ Len(state.aadhaar) # 12
                [] field = "loan_amount" -> state.loan_amount < 10000
                [] field = "tenure" -> state.tenure < 6 \/ state.tenure > 360
                [] field = "income" -> state.income <= 0
                [] field = "mobile" ->
                     ~isdigit(state.mobile) \/ Len(state.mobile) # 10)

\* the update sales_node returns: the try block, or the except block
sales_update(state) ==
  IF state.pan = None \/ state.aadhaar = None \/ state.mobile = None
  THEN [status |-> "FAIL",
        step |-> [node |-> "sales", result |-> "FAIL"],
        error_message |-> <<"Validation error: ", "AttributeError">>]
  ELSE LET errors == sales_errors(state)
           is_success == Len(errors) = 0
       IN  [status |-> IF is_success THEN "SUCCESS" ELSE "FAIL",
            step |-> [node |-> "sales",
                      result |-> IF is_success THEN "SUCCESS" ELSE "FAIL"],
            error_message |-> IF errors # <<>> THEN errors ELSE None]

\* services/mock_api.py
verify_pan(pan) == IF pan_pattern(upper(pan)) THEN "VERIFIED" ELSE "FAILED"
verify_aadhaar(aadhaar) ==
  IF isdigit(aadhaar) /\ Len(aadhaar) = 12 THEN "VERIFIED" ELSE "FAILED"
verify_mobile(mobile) ==
  IF isdigit(mobile) /\ Len(mobile) = 10 THEN "VERIFIED" ELSE "FAILED"
FIXED_SCORE == 750
get_credit_score(pan) == FIXED_SCORE

\* the update verification_node returns
verification_update(state) ==
  IF state.pan = None \/ state.aadhaar = None \/ state.mobile = None
  THEN [status |-> "FAIL",
        step |-> [node |-> "verification", result |-> "FAIL"],
        error_message |-> <<"Verification error: ", "AttributeError">>]
  ELSE LET errors ==
             SelectSeq(<<"pan", "aadhaar", "mobile">>,
                       LAMBDA field :
                         CASE field = "pan" -> verify_pan(state.pan) # "VERIFIED"
                           [] field = "aadhaar" ->
                                verify_aadhaar(state.aadhaar) # "VERIFIED"
                           [] field = "mobile" ->
                                verify_mobile(state.mobile) # "VERIFIED")
           all_verified == errors = <<>>
       IN  [status |-> IF all_verified THEN "SUCCESS" ELSE "FAIL",
            step |-> [node |-> "verification",
                      result |-> IF all_verified THEN "SUCCESS" ELSE "FAIL"],
            error_message |-> IF errors # <<>> THEN errors ELSE None]

\* emi > income * 0.5 with emi = calculate_emi(loan_amount, tenure), multiplied
\* out as in emi_ratio_exceeds: loan_amount * (1+r)^n > 50 * income * ((1+r)^n - 1)
emi_exceeds_max_allowed(loan_amount, tenure, income) ==
  LET g == GrowthTable[tenure]
      lhs == BigMulInt(BigFromInt(loan_amount), g)
      rhs == BigMulInt(BigMulInt(BigFromInt(income), 50), g - GrowthOne)
  IN  lhs # rhs /\ BigGE(lhs, rhs)

min_credit_score == 600

\* the update underwriting_node returns; calculate_emi divides by
\* (1 + monthly_rate)**tenure_months - 1, which is 0.0 for a tenure of 0
underwriting_update(state) ==
  IF state.pan = None \/ state.tenure = 0
  THEN [status |-> "FAIL", credit_score |-> 0,
        step |-> [node |-> "underwriting", result |-> "FAIL"],
        error_message |->
          <<"Credit assessment error: ",
            IF state.pan = None THEN "AttributeError" ELSE "ZeroDivisionError">>]
  ELSE LET credit == get_credit_score(state.pan)
           errors ==
             SelectSeq(<<"credit_score", "emi", "loan_amount">>,
                       LAMBDA rule :
                         CASE rule = "credit_score" -> credit < min_credit_score
                           [] rule = "emi" ->
                                emi_exceeds_max_allowed(state.loan_amount,
                                                        state.tenure, state.income)
                           [] rule = "loan_amount" ->
                                state.loan_amount > state.income * 50)
           is_approved == Len(errors) = 0
       IN  [status |-> IF is_approved THEN "SUCCESS" ELSE "FAIL",
            credit_score |-> credit,
            step |-> [node |-> "underwriting",
                      result |-> IF is_approved THEN "SUCCESS" ELSE "FAIL"],
            error_message |-> IF errors # <<>> THEN errors ELSE None]

\* what generate_sanction_letter can do: return the path of the file, or
\* raise (os.makedirs, the file system, ReportLab)
PdfOk == "ok"
PdfFailures == {"PermissionError", "OSError"}
PdfOutcomes == {PdfOk} \cup PdfFailures

\* variant: the sanction node reports SUCCESS like the nodes before it
sanction_update_success(state, outcome) ==
  IF outcome = PdfOk
  THEN [status |-> "SUCCESS",
        sanction_pdf_url |-> <<"/pdfs/", state.application_id, ".pdf">>,
        step |-> [node |-> "sanction", result |-> "SUCCESS"],
        error_message |-> None]
  ELSE [status |-> "FAIL",
        sanction_pdf_url |-> None,
        step |-> [node |-> "sanction", result |-> "FAIL"],
        error_message |-> <<"PDF generation failed: ", outcome>>]

\* variant: the failure is reported without its cause
sanction_update_generic(state, outcome) ==
  IF outcome = PdfOk
  THEN [status |-> "SANCTIONED",
        sanction_pdf_url |-> <<"/pdfs/", state.application_id, ".pdf">>,
        step |-> [node |-> "sanction", result |-> "SUCCESS"],
        error_message |-> None]
  ELSE [status |-> "FAIL",
        sanction_pdf_url |-> None,
        step |-> [node |-> "sanction", result |-> "FAIL"],
        error_message |-> <<"PDF generation failed">>]

\* the update sanction_node returns, given what generate_sanction_letter did
sanction_update(state, outcome) ==
  IF outcome = PdfOk
  THEN [status |-> "SANCTIONED",
        sanction_pdf_url |-> <<"/pdfs/", state.application_id, ".pdf">>,
        step |-> [node |-> "sanction", result |-> "SUCCESS"],
        error_message |-> None]
  ELSE [status |-> "FAIL",
        sanction_pdf_url |-> None,
        step |-> [node |-> "sanction", result |-> "FAIL"],
        error_message |-> <<"PDF generation failed: ", outcome>>]

route_after_sales(state_status) ==
  IF state_status = "FAIL" THEN "end" ELSE "verification"

route_after_verification(state_status) ==
  IF state_status = "FAIL" THEN "end" ELSE "underwriting"

\* variant: the router after underwriting ignores the status
route_always_sanction(state_status) == "sanction"

route_after_underwriting(state_status) ==
  IF state_status = "FAIL" THEN "end" ELSE "sanction"

\* add_conditional_edges(node, router, {next: next, "end": END})
loan_edge(route) == IF route = "end" THEN END ELSE route

sales_node ==
  LET out == sales_update(application_data)
  IN  /\ pc = "sales"
      /\ status' = out.status
      /\ steps' = steps \o <<out.step>>
      /\ error_message' = out.error_message
      /\ pc' = loan_edge(route_after_sales(out.status))
      /\ UNCHANGED <<application_data, credit_score, sanction_pdf_url, loan_outside,
                     pdf_outcome>>

verification_node ==
  LET out == verification_update(application_data)
  IN  /\ pc = "verification"
      /\ status' = out.status
      /\ steps' = steps \o <<out.step>>
      /\ error_message' = out.error_message
      /\ pc' = loan_edge(route_after_verification(out.status))
      /\ UNCHANGED <<application_data, credit_score, sanction_pdf_url, loan_outside,
                     pdf_outcome>>

underwriting_node ==
  LET out == underwriting_update(application_data)
  IN  /\ pc = "underwriting"
      /\ status' = out.status
      /\ credit_score' = out.credit_score
      /\ steps' = steps \o <<out.step>>
      /\ error_message' = out.error_message
      /\ pc' = loan_edge(route_after_underwriting(out.status))
      /\ UNCHANGED <<application_data, sanction_pdf_url, loan_outside, pdf_outcome>>

sanction_node ==
  \E outcome \in PdfOutcomes :
    LET out == sanction_update(application_data, outcome)
    IN  /\ pc = "sanction"
        /\ status' = out.status
        /\ sanction_pdf_url' = out.sanction_pdf_url
        /\ steps' = steps \o <<out.step>>
        /\ error_message' = out.error_message
        /\ pc' = END
        /\ pdf_outcome' = outcome
        /\ UNCHANGED <<application_data, credit_score, loan_outside>>

\* the applications given to run_loan_workflow
LoanIncomes == {0, 8000, 20000, 100000}
LoanPans == { None,
              <<"a", "b", "c", "d", "e", "1", "2", "3", "4", "f">>,
              <<"A", "B", "C", "D", "1", "2", "3", "4", "F">> }
LoanAadhaars == { <<"1", "2", "3", "4", "5", "6", "7", "8", "9", "0", "1", "2">>,
                  <<"1", "2", "3", "4", " ", "5", "6", "7", "8", " ", "9", "0", "1", "2">> }
LoanMobiles == { <<"9", "8", "7", "6", "5", "4", "3", "2", "1", "0">>,
                 <<"1", "2", "3", "4", "5">> }
LoanApplications ==
  [application_id : {1}, income : LoanIncomes, loan_amount : LoanAmounts,
   tenure : Tenures \cup {6, 360}, pan : LoanPans, aadhaar : LoanAadhaars,
   mobile : LoanMobiles]

\* run_loan_workflow: initial_state, then the edge START -> sales
InitLoan ==
  /\ application_data \in LoanApplications
  /\ status = "PROCESSING"
  /\ credit_score = 0
  /\ steps = <<>>
  /\ sanction_pdf_url = None
  /\ error_message = None
  /\ pdf_outcome = NotCalled
  /\ pc = "sales"
  /\ agent_results = <<>>
  /\ agent_updates = <<>>
  /\ current_agent = ""
  /\ final_decision = ""
  /\ executed = <<>>
  /\ all_results = <<>>
  /\ result = NoResult
  /\ application_id = application_data.application_id
  /\ InitDirectIdle
  /\ InitServiceIdle
  /\ runs = <<>>
  /\ InitStreamIdle

NextLoan ==
  \/ sales_node
  \/ verification_node
  \/ underwriting_node
  \/ sanction_node

SpecLoan == InitLoan /\ [][NextLoan]_vars

\* a run of either workflow
InitPipelines == Init \/ InitLoan

NextPipelines == Next \/ NextLoan

SpecPipelines == InitPipelines /\ [][NextPipelines]_vars

(***************************************************************************)
(* Direct calls of the evaluators: AgentZeta.evaluate on a verdict list,   *)
(* and each component evaluator on an application.                         *)
(***************************************************************************)
AgentOrder == <<"AgentAlpha", "AgentBeta", "AgentGamma", "AgentDelta",
                "AgentEpsilon">>
ScoreValues == {10, 40, 55, 70, 100}
MaxResults == 6

\* a component verdict with the given score
Verdict(name, score) == [agent_name |-> name, score |-> score, decision |-> decide(score)]

\* verdicts of an evaluator that is not in the weight table: the aggregator
\* itself, whose decision is not the threshold of its score (REVIEW at 0 is
\* what it returns for the empty list)
OtherVerdicts ==
  { [agent_name |-> "AgentZeta", score |-> v[1], decision |-> v[2]] :
      v \in { <<0, REVIEW>>, <<40, REJECT>>, <<55, REVIEW>>, <<85, REVIEW>>,
              <<100, APPROVE>> } }

VerdictsOf(k) ==
  IF k <= Len(AgentOrder)
  THEN {Verdict(AgentOrder[k], s) : s \in ScoreValues}
  ELSE OtherVerdicts

\* the verdict lists of at most n verdicts by the evaluators k, k+1, ..
\* (the five of AgentOrder, then the sixth), in that order, each at most once
RECURSIVE VerdictLists(_, _)
VerdictLists(k, n) ==
  IF k > Len(AgentOrder) + 1 \/ n = 0 THEN {<<>>}
  ELSE VerdictLists(k + 1, n) \cup
       { <<v>> \o l : v \in VerdictsOf(k), l \in VerdictLists(k + 1, n - 1) }

InitIdle ==
  /\ agent_results = <<>>
  /\ agent_updates = <<>>
  /\ current_agent = ""
  /\ status = "PROCESSING"
  /\ final_decision = ""
  /\ pc = END
  /\ executed = <<>>
  /\ result = NoResult
  /\ application_id = 0
  /\ InitOutside

InitZeta ==
  /\ InitIdle
  /\ application_data \in {CHOOSE a \in Applications : TRUE}
  /\ all_results \in VerdictLists(1, MaxResults)

zeta_evaluate ==
  /\ result = NoResult
  /\ result' = AgentZeta_evaluate(all_results)
  /\ UNCHANGED <<application_data, application_id, agent_results, agent_updates,
                 current_agent, status, final_decision, pc, executed, all_results,
                 outside_vars>>

NextZeta == zeta_evaluate

SpecZeta == InitZeta /\ [][NextZeta]_vars

InitAgents ==
  /\ InitIdle
  /\ application_data \in Applications
  /\ all_results = <<>>

returns(res) ==
  /\ result = NoResult
  /\ result' = res
  /\ UNCHANGED <<application_data, application_id, agent_results, agent_updates,
                 current_agent, status, final_decision, pc, executed, all_results,
                 outside_vars>>

alpha_evaluate == returns(AgentAlpha_evaluate(application_data))

beta_evaluate == returns(AgentBeta_evaluate(application_data))

gamma_evaluate ==
  \E variance \in VarianceDraws :
    returns(AgentGamma_evaluate(application_data, variance))

delta_evaluate ==
  \E stability_score \in StabilityDraws :
    returns(AgentDelta_evaluate(application_data, stability_score))

epsilon_evaluate ==
  \E velocity_check \in VelocityDraws, doc_score \in DocDraws,
     blacklist_draw \in BlacklistDraws :
    returns(AgentEpsilon_evaluate(application_data, velocity_check, doc_score,
                                  blacklist_draw))

NextAgents ==
  \/ alpha_evaluate
  \/ beta_evaluate
  \/ gamma_evaluate
  \/ delta_evaluate
  \/ epsilon_evaluate

SpecAgents == InitAgents /\ [][NextAgents]_vars

(***************************************************************************)
(* The evaluators called on application dicts that lack some of their      *)
(* keys: application.get(key, default) gives the default.                  *)
(***************************************************************************)
Fields == {"income", "loan_amount", "tenure", "pan", "aadhaar", "mobile"}

\* the dict a without the keys outside keys
restrict(a, keys) == [k \in keys |-> a[k]]

CompleteApplications ==
  { a \in Applications : /\ a.income \in {20000, 100000}
                          /\ a.loan_amount \in {500000, 60000000}
                          /\ a.tenure = 60
                          /\ Len(a.pan) = 10
                          /\ Len(a.aadhaar) = 14
                          /\ Len(a.mobile) = 11 }

PartialApplications ==
  { restrict(a, Fields \ missing) : a \in CompleteApplications, missing \in SUBSET Fields }

InitMissing ==
  /\ InitIdle
  /\ application_data \in PartialApplications
  /\ all_results = <<>>

SpecMissing == InitMissing /\ [][NextAgents]_vars

\* the six-evaluator workflow run on applications with a monthly income of 0
\* (a loan amount of 0 among them) and, beside them, on the complete
\* applications; a node that is enabled is run
IncomeZeroApplications ==
  [income : {0}, loan_amount : {0} \cup LoanAmounts, tenure : Tenures,
   pan : Pans, aadhaar : Aadhaars, mobile : Mobiles]

InitIncomeZero ==
  /\ application_data \in IncomeZeroApplications \cup CompleteApplications
  /\ application_id = 0
  /\ agent_results = <<>>
  /\ agent_updates = <<>>
  /\ current_agent = ""
  /\ status = "PROCESSING"
  /\ final_decision = ""
  /\ pc = "alpha"
  /\ executed = <<>>
  /\ all_results = <<>>
  /\ result = NoResult
  /\ InitOutside

\* invoke() runs the node the graph has reached: in a run on an application
\* with income 0, a node that is enabled is taken
SpecIncomeZero ==
  InitIncomeZero /\ [][Next]_vars /\ WF_vars(application_data.income = 0 /\ Next)

\* the sales evaluator called alone, on amounts, incomes and tenures at and
\* around its thresholds, the income present or missing
SalesIncomes == {-1, 0, 1, 100000}
SalesAmounts == {1, 9999, 10000, 4800000, 4800001, 5000000, 6000000, 6000001,
                 50000000, 50000001}
SalesTenures == {1, 5, 6, 60, 360, 361}
SalesApplications ==
  { restrict(a, keys) :
      a \in [income : SalesIncomes, loan_amount : SalesAmounts, tenure : SalesTenures],
      keys \in {{"income", "loan_amount", "tenure"}, {"loan_amount", "tenure"}} }

InitSales ==
  /\ InitIdle
  /\ application_data \in SalesApplications
  /\ all_results = <<>>

NextSales == alpha_evaluate

SpecSales == InitSales /\ [][NextSales]_vars

\* the KYC evaluator called alone, on identifiers and contact numbers that
\* are well-formed (with and without separators), malformed, empty or missing
KycPans ==
  Pans \cup { None,
              <<"A", "B", "C", "D", "E", "1", "2", "3", "4", "F">>,
              <<"A", "B", "C", "D", "E", "1", "2", "3", "4", "5">> }
KycAadhaars ==
  Aadhaars \cup { <<"1", "2", "3", "4", "-", "5", "6", "7", "8", "-", "9", "0", "1", "2">>,
                  <<"1", "2", "3", "4", "5", "6", "7", "8", "9", "0", "1", "x">>,
                  <<" ", "-">> }
KycMobiles ==
  Mobiles \cup { <<"9", "8", "7", "6", "5", "4", "3", "2", "1", "0">>,
                 <<"9", "8", "7", "6", "5", " ", "4", "3", "2", "1", "x">> }
KycApplications ==
  { restrict(a, keys) :
      a \in [pan : KycPans, aadhaar : KycAadhaars, mobile : KycMobiles],
      keys \in SUBSET {"pan", "aadhaar", "mobile"} }

InitKyc ==
  /\ InitIdle
  /\ application_data \in KycApplications
  /\ all_results = <<>>

NextKyc == beta_evaluate

SpecKyc == InitKyc /\ [][NextKyc]_vars

\* the fraud evaluator called alone, its three draws kept with the call
FraudApplications ==
  { a \in Applications : /\ a.income \in {0, 12000, 20000, 100000}
                          /\ a.tenure = 60
                          /\ Len(a.pan) = 10
                          /\ Len(a.aadhaar) = 14
                          /\ Len(a.mobile) = 11 }

InitFraud ==
  /\ InitIdle
  /\ application_data \in FraudApplications
  /\ all_results = <<>>

fraud_call ==
  /\ result = NoResult
  /\ \E velocity_check \in VelocityDraws, doc_score \in DocDraws,
        blacklist_draw \in BlacklistDraws :
       /\ result' = AgentEpsilon_evaluate(application_data, velocity_check, doc_score,
                                          blacklist_draw)
       /\ call' = [agent |-> "AgentEpsilon",
                   draws |-> <<velocity_check, doc_score, blacklist_draw>>]
  /\ UNCHANGED <<application_data, application_id, agent_results, agent_updates,
                 current_agent, status, final_decision, pc, executed, all_results,
                 repeated, loan_vars, pdf_outcome, runs, service_vars,
                 stream_vars>>

NextFraud == fraud_call

SpecFraud == InitFraud /\ [][NextFraud]_vars

(***************************************************************************)
(* api/routes.py and api/admin_routes.py: the requests on one stored       *)
(* application.  A request handler is one action; the workflow it calls    *)
(* runs to its end inside it.                                              *)
(***************************************************************************)
\* loan_graph.invoke(initial_state): the final state of the sequential
\* workflow, the nodes and routers applied in the order of the graph
run_loan_workflow(application, outcome) ==
  LET sales == sales_update(application)
      verification == verification_update(application)
      underwriting == underwriting_update(application)
      sanction == sanction_update(application, outcome)
  IN  IF route_after_sales(sales.status) = "end"
      THEN [status |-> sales.status, steps |-> <<sales.step>>,
            sanction_pdf_url |-> None, error_message |-> sales.error_message]
      ELSE IF route_after_verification(verification.status) = "end"
      THEN [status |-> verification.status,
            steps |-> <<sales.step, verification.step>>,
            sanction_pdf_url |-> None, error_message |-> verification.error_message]
      ELSE IF route_after_underwriting(underwriting.status) = "end"
      THEN [status |-> underwriting.status,
            steps |-> <<sales.step, verification.step, underwriting.step>>,
            sanction_pdf_url |-> None, error_message |-> underwriting.error_message]
      ELSE [status |-> sanction.status,
            steps |-> <<sales.step, verification.step, underwriting.step,
                        sanction.step>>,
            sanction_pdf_url |-> sanction.sanction_pdf_url,
            error_message |-> sanction.error_message]

\* the requests served in a behaviour
MaxRequests == 3

\* the applications POST /apply stores: ApplicationCreate has validated them
ApiApplications ==
  { a \in LoanApplications : /\ a.income > 0
                              /\ a.tenure <= 360
                              /\ Len(a.pan) = 10
                              /\ Len(a.aadhaar) = 12
                              /\ Len(a.mobile) = 10 }

\* create_application has stored the row: status CREATED, the column defaults
InitApi ==
  /\ application_data \in ApiApplications
  /\ application_id = application_data.application_id
  /\ db_app = [status |-> "CREATED", workflow_steps |-> <<>>,
               sanction_pdf_path |-> None, human_override |-> FALSE]
  /\ response = NoResponse
  /\ workflow_calls = 0
  /\ status_history = <<>>
  /\ served = 0
  /\ agent_results = <<>>
  /\ agent_updates = <<>>
  /\ current_agent = ""
  /\ status = "PROCESSING"
  /\ final_decision = ""
  /\ pc = END
  /\ executed = <<>>
  /\ all_results = <<>>
  /\ result = NoResult
  /\ InitLoanIdle
  /\ pdf_outcome = NotCalled
  /\ InitDirectIdle
  /\ InitChatIdle
  /\ runs = <<>>
  /\ InitStreamIdle

\* variant: the request runs the workflow whatever the stored status is
already_processed_never(row) == FALSE

\* if db_app.status == "SANCTIONED"
already_processed(row) == row.status = "SANCTIONED"

\* POST /process/{application_id}
process_application ==
  /\ served < MaxRequests
  /\ served' = served + 1
  /\ IF already_processed(db_app)
     THEN /\ response' = [request |-> "process",
                          status |-> "SANCTIONED",
                          sanction_pdf_url |-> db_app.sanction_pdf_path,
                          steps |-> db_app.workflow_steps,
                          error_message |-> None]
          /\ UNCHANGED <<db_app, workflow_calls>>
     ELSE \E outcome \in PdfOutcomes :
            LET out == run_loan_workflow(application_data, outcome)
            IN  /\ workflow_calls' = workflow_calls + 1
                /\ db_app' = [db_app EXCEPT
                                !.status = out.status,
                                !.workflow_steps = out.steps,
                                !.sanction_pdf_path =
                                  IF out.sanction_pdf_url # None
                                  THEN out.sanction_pdf_url ELSE @]
                /\ response' = [request |-> "process",
                                status |-> out.status,
                                sanction_pdf_url |-> out.sanction_pdf_url,
                                steps |-> out.steps,
                                error_message |-> out.error_message]
  /\ UNCHANGED <<application_data, application_id, agent_results, agent_updates,
                 current_agent, status, final_decision, pc, executed, all_results,
                 result, loan_vars, pdf_outcome, direct_vars, status_history,
                 chat_vars, runs, stream_vars>>

valid_statuses ==
  {"CREATED", "PROCESSING", "SUCCESS", "FAIL", "SANCTIONED", "REJECTED",
   "MANUAL_REVIEW"}

\* PUT /applications/{application_id}/status by an employee
override_status ==
  /\ served < MaxRequests
  /\ served' = served + 1
  /\ \E new_status \in valid_statuses :
       /\ status_history' = Append(status_history,
                                   [old_status |-> db_app.status,
                                    new_status |-> new_status])
       /\ db_app' = [db_app EXCEPT !.status = new_status, !.human_override = TRUE]
       /\ response' = [request |-> "override",
                       old_status |-> db_app.status,
                       new_status |-> new_status]
  /\ UNCHANGED <<application_data, application_id, agent_results, agent_updates,
                 current_agent, status, final_decision, pc, executed, all_results,
                 result, loan_vars, pdf_outcome, direct_vars, workflow_calls,
                 chat_vars, runs, stream_vars>>

NextApi ==
  \/ process_application
  \/ override_status

SpecApi == InitApi /\ [][NextApi]_vars

(***************************************************************************)
(* graph/chat_graph.py: the conversational workflow sales -> verification  *)
(* -> underwriting -> sanction -> result, each node wrapping the node of   *)
(* the sequential workflow.  steps and agent_responses have the reducer    *)
(* add; a response is held as the name of the agent that speaks.           *)
(***************************************************************************)
ChatApplications == { a \in LoanApplications : a.tenure \in {3, 60, 360} }

\* underwriting_node reads the application's fields only: its update for
\* each application
UnderwritingUpdates == [a \in ChatApplications |-> underwriting_update(a)]

\* what a node of the chat workflow does not touch
chat_outside == <<application_data, application_id, agent_results, agent_updates,
                  final_decision, all_results, result, direct_vars, api_vars, runs,
                  stream_vars, session>>

\* run_chat_workflow: initial_state, then the edge START -> sales
InitChat ==
  /\ application_data \in ChatApplications
  /\ application_id = application_data.application_id
  /\ status = "PROCESSING"
  /\ credit_score = 0
  /\ steps = <<>>
  /\ agent_responses = <<"master">>
  /\ current_agent = "master"
  /\ sanction_pdf_url = None
  /\ error_message = None
  /\ final_response = ""
  /\ processing_complete = FALSE
  /\ session = NoSession
  /\ pdf_outcome = NotCalled
  /\ pc = "sales"
  /\ executed = <<>>
  /\ agent_results = <<>>
  /\ agent_updates = <<>>
  /\ final_decision = ""
  /\ all_results = <<>>
  /\ result = NoResult
  /\ InitDirectIdle
  /\ InitApiIdle
  /\ runs = <<>>
  /\ InitStreamIdle

\* variant: a failed validation ends the run at once
chat_route_to_end(state_status, next) ==
  IF state_status = "FAIL" THEN END ELSE next

\* route_after_sales, route_after_verification, route_after_underwriting of
\* chat_graph.py with their edge maps: "result" on FAIL, else the next node
chat_route(state_status, next) ==
  IF state_status = "FAIL" THEN "result" ELSE next

sales_agent_node ==
  LET out == sales_update(application_data)
  IN  /\ pc = "sales"
      /\ status' = out.status
      /\ steps' = add(steps, steps \o <<out.step>>)
      /\ error_message' = out.error_message
      /\ agent_responses' = add(agent_responses, <<"sales">>)
      /\ current_agent' = "sales"
      /\ executed' = Append(executed, "sales")
      /\ pc' = chat_route(out.status, "verification")
      /\ UNCHANGED <<credit_score, sanction_pdf_url, pdf_outcome, final_response,
                     processing_complete, chat_outside>>

verification_agent_node ==
  LET out == verification_update(application_data)
  IN  /\ pc = "verification"
      /\ status' = out.status
      /\ steps' = add(steps, steps \o <<out.step>>)
      /\ error_message' = out.error_message
      /\ agent_responses' = add(agent_responses, <<"verification", "verification">>)
      /\ current_agent' = "verification"
      /\ executed' = Append(executed, "verification")
      /\ pc' = chat_route(out.status, "underwriting")
      /\ UNCHANGED <<credit_score, sanction_pdf_url, pdf_outcome, final_response,
                     processing_complete, chat_outside>>

\* "credit_score": details.get("credit_score", 750) replaces the credit_score
\* of the update; the data of the except branch has no credit_score
underwriting_agent_node ==
  LET out == UnderwritingUpdates[application_data]
  IN  /\ pc = "underwriting"
      /\ status' = out.status
      /\ steps' = add(steps, steps \o <<out.step>>)
      /\ error_message' = out.error_message
      /\ credit_score' = IF out.credit_score = 0 THEN 750 ELSE out.credit_score
      /\ agent_responses' = add(agent_responses, <<"underwriting", "underwriting">>)
      /\ current_agent' = "underwriting"
      /\ executed' = Append(executed, "underwriting")
      /\ pc' = chat_route(out.status, "sanction")
      /\ UNCHANGED <<sanction_pdf_url, pdf_outcome, final_response,
                     processing_complete, chat_outside>>

\* graph.add_edge("sanction", "result")
sanction_agent_node ==
  \E outcome \in PdfOutcomes :
    LET out == sanction_update(application_data, outcome)
    IN  /\ pc = "sanction"
        /\ status' = out.status
        /\ sanction_pdf_url' = out.sanction_pdf_url
        /\ steps' = add(steps, steps \o <<out.step>>)
        /\ error_message' = out.error_message
        /\ agent_responses' = add(agent_responses, <<"sanction">>)
        /\ current_agent' = "sanction"
        /\ executed' = Append(executed, "sanction")
        /\ pdf_outcome' = outcome
        /\ pc' = "result"
        /\ UNCHANGED <<credit_score, final_response, processing_complete,
                       chat_outside>>

\* the two texts of master_result_node, held by their kind
ApprovalMessage == "Congratulations! Your Loan Application is APPROVED!"
RegretMessage ==
  "We regret to inform you that your loan application was not approved."

\* graph.add_edge("result", END)
master_result_node ==
  /\ pc = "result"
  /\ final_response' = IF status = "SANCTIONED" THEN ApprovalMessage ELSE RegretMessage
  /\ processing_complete' = TRUE
  /\ current_agent' = "master"
  /\ executed' = Append(executed, "result")
  /\ pc' = END
  /\ UNCHANGED <<status, steps, error_message, credit_score, sanction_pdf_url,
                 pdf_outcome, agent_responses, chat_outside>>

NextChat ==
  \/ sales_agent_node
  \/ verification_agent_node
  \/ underwriting_agent_node
  \/ sanction_agent_node
  \/ master_result_node

\* chat_workflow.invoke runs the node the graph has reached
SpecChat == InitChat /\ [][NextChat]_vars /\ WF_vars(NextChat)

(***************************************************************************)
(* api/chat_routes.py with services/conversation_service.py: the handlers  *)
(* of the chat endpoints on one conversation session.  A message is held   *)
(* as its role and the kind of its content; an application_id that is None *)
(* is 0 and a processing_result that is None is NoResult.                  *)
(***************************************************************************)
REQUIRED_FIELDS ==
  <<"customer_name", "mobile", "pan", "aadhaar", "loan_amount", "tenure", "income">>

\* the chat requests served in a behaviour
MaxChatRequests == 5

\* the session ids of the requests: the id of the session, and an id that no
\* session has
SessionIds == {"s1", "s0"}

\* the keys of the dict that master_agent.extract_info returns, in its order
ExtractedKeys ==
  { <<>>, <<"customer_name">>, <<"customer_name", "mobile">>, <<"", "mobile">>,
    REQUIRED_FIELDS }

Message(role, content) == [role |-> role, content |-> content]

\* ConversationManager.get_session
get_session(session_id) == IF session_id = "s1" THEN session ELSE NoSession

\* the row ConversationManager.create_session inserts
create_session ==
  [messages |-> <<>>, collected_data |-> <<>>, stage |-> "greeting",
   application_id |-> 0, is_active |-> TRUE, processing_result |-> NoResult]

\* the requests leave the workflows alone
session_outside == <<application_data, application_id, agent_results, agent_updates,
                     current_agent, status, final_decision, pc, executed, all_results,
                     result, loan_vars, pdf_outcome, direct_vars, status_history,
                     agent_responses, final_response, processing_complete, runs,
                     stream_vars>>

\* POST /chat/start: create_session returns the session that has the id, if
\* there is one; a request without an id, or with another one, makes a
\* session of its own
start_chat ==
  /\ served < MaxChatRequests
  /\ served' = served + 1
  /\ \E session_id \in {"s1", "another"} :
       IF session = NoSession \/ session_id = "s1"
       THEN LET row == IF session # NoSession THEN session ELSE create_session
            IN  /\ session' = [row EXCEPT
                                 !.messages = Append(@, Message("assistant", "greeting")),
                                 !.stage = "greeting"]
                /\ response' = [request |-> "start", session_id |-> "s1",
                                status_code |-> 200]
       ELSE /\ response' = [request |-> "start", session_id |-> session_id,
                            status_code |-> 200]
            /\ UNCHANGED session
  /\ UNCHANGED <<db_app, workflow_calls, session_outside>>

\* variant: the handler does not look at is_active
session_ended_unchecked(row) == FALSE

\* if not session.is_active
session_ended(row) == ~row.is_active

\* send_message from line 225 on: extract_info returns one dict, which the
\* handler unpacks into two names; with two keys the first key is passed to
\* update_data, and dict.update of a str raises; with an empty first key
\* generate_response is called with keyword arguments it does not have
send_message_raises(keys) ==
  IF Len(keys) # 2 THEN "ValueError: unpack"
  ELSE IF keys[1] # "" THEN "ValueError: update"
  ELSE "TypeError"

\* POST /chat/message
send_message ==
  /\ served < MaxChatRequests
  /\ served' = served + 1
  /\ \E session_id \in SessionIds, keys \in ExtractedKeys :
       LET row == get_session(session_id)
       IN  IF row = NoSession
           THEN /\ response' = [request |-> "message", session_id |-> session_id,
                                status_code |-> 404, raised |-> "HTTPException"]
                /\ UNCHANGED session
           ELSE IF session_ended(row)
           THEN /\ response' = [request |-> "message", session_id |-> session_id,
                                status_code |-> 400, raised |-> "HTTPException"]
                /\ UNCHANGED session
           ELSE /\ session' = [row EXCEPT
                                 !.messages = Append(@, Message("user", "message"))]
                /\ response' = [request |-> "message", session_id |-> session_id,
                                status_code |-> 500,
                                raised |-> send_message_raises(keys)]
  /\ UNCHANGED <<db_app, workflow_calls, session_outside>>

\* f not in session.collected_data or not session.collected_data[f]
missing_fields(data) ==
  SelectSeq(REQUIRED_FIELDS,
            LAMBDA f : \/ f \notin DOMAIN data
                       \/ IF f \in {"loan_amount", "tenure", "income"}
                          THEN data[f] = 0 ELSE data[f] = <<>>)

\* str.replace(" ", "")
remove_spaces(str) == SelectSeq(str, LAMBDA c : c # " ")

\* validate_application_data: the fields with an error, in its order
validation_errors(data) ==
  SelectSeq(<<"customer_name", "mobile", "pan", "aadhaar", "loan_amount", "tenure",
              "income">>,
            LAMBDA f :
              CASE f = "customer_name" ->
                     Len(data.customer_name) < 2 \/ Len(data.customer_name) > 100
                [] f = "mobile" ->
                     \/ ~isdigit(strip_separators(data.mobile))
                     \/ Len(strip_separators(data.mobile)) # 10
                [] f = "pan" -> ~pan_pattern(remove_spaces(upper(data.pan)))
                [] f = "aadhaar" ->
                     \/ ~isdigit(strip_separators(data.aadhaar))
                     \/ Len(strip_separators(data.aadhaar)) # 12
                [] f = "loan_amount" ->
                     data.loan_amount < 10000 \/ data.loan_amount > 50000000
                [] f = "tenure" -> data.tenure < 6 \/ data.tenure > 360
                [] f = "income" -> data.income < 10000)

\* validate_application_data: sanitized_data, as workflow_data with the id of
\* the row just stored
workflow_data(data) ==
  [application_id |-> 1,
   mobile |-> strip_separators(data.mobile),
   pan |-> remove_spaces(upper(data.pan)),
   aadhaar |-> strip_separators(data.aadhaar),
   loan_amount |-> data.loan_amount,
   tenure |-> data.tenure,
   income |-> data.income]

\* "steps": current_steps + [step_result] of a node, under the reducer add of
\* ChatState.steps
chat_steps(current_steps, step) == add(current_steps, current_steps \o <<step>>)

\* chat_workflow.invoke(initial_state): the final state of the chat workflow
run_chat_workflow(application, outcome) ==
  LET sales == sales_update(application)
      verification == verification_update(application)
      underwriting == underwriting_update(application)
      sanction == sanction_update(application, outcome)
      steps1 == chat_steps(<<>>, sales.step)
      steps2 == chat_steps(steps1, verification.step)
      steps3 == chat_steps(steps2, underwriting.step)
      steps4 == chat_steps(steps3, sanction.step)
      final(state_status, state_steps, url) ==
        [status |-> state_status, steps |-> state_steps, sanction_pdf_url |-> url,
         final_response |-> IF state_status = "SANCTIONED" THEN ApprovalMessage
                            ELSE RegretMessage]
  IN  IF chat_route(sales.status, "verification") = "result"
      THEN final(sales.status, steps1, None)
      ELSE IF chat_route(verification.status, "underwriting") = "result"
      THEN final(verification.status, steps2, None)
      ELSE IF chat_route(underwriting.status, "sanction") = "result"
      THEN final(underwriting.status, steps3, None)
      ELSE final(sanction.status, steps4, sanction.sanction_pdf_url)

\* POST /chat/process: process_application of chat_routes.py
chat_process_application ==
  /\ served < MaxChatRequests
  /\ served' = served + 1
  /\ \E session_id \in SessionIds, outcome \in PdfOutcomes :
       LET row == get_session(session_id)
       IN  IF row = NoSession
           THEN /\ response' = [request |-> "process", session_id |-> session_id,
                                status_code |-> 404, raised |-> "HTTPException"]
                /\ UNCHANGED <<session, db_app, workflow_calls>>
           ELSE IF missing_fields(row.collected_data) # <<>>
                   \/ validation_errors(row.collected_data) # <<>>
           THEN /\ response' = [request |-> "process", session_id |-> session_id,
                                status_code |-> 400, raised |-> "HTTPException"]
                /\ UNCHANGED <<session, db_app, workflow_calls>>
           ELSE LET out == run_chat_workflow(workflow_data(row.collected_data),
                                             outcome)
                IN  /\ workflow_calls' = workflow_calls + 1
                    /\ db_app' = [status |-> out.status,
                                  workflow_steps |-> out.steps,
                                  sanction_pdf_path |-> out.sanction_pdf_url,
                                  human_override |-> FALSE]
                    /\ session' =
                         [row EXCEPT
                            !.application_id = 1,
                            !.processing_result = out,
                            !.stage = IF out.status = "SANCTIONED" THEN "completed"
                                      ELSE "rejected",
                            !.messages = Append(@, Message("assistant",
                                                           out.final_response))]
                    /\ response' = [request |-> "process", session_id |-> session_id,
                                    status_code |-> 200, status |-> out.status]
  /\ UNCHANGED session_outside

\* DELETE /chat/session/{session_id}
end_session ==
  /\ served < MaxChatRequests
  /\ served' = served + 1
  /\ \E session_id \in SessionIds :
       LET row == get_session(session_id)
       IN  IF row = NoSession
           THEN /\ response' = [request |-> "end", session_id |-> session_id,
                                status_code |-> 404, raised |-> "HTTPException"]
                /\ UNCHANGED session
           ELSE /\ session' = [row EXCEPT !.is_active = FALSE]
                /\ response' = [request |-> "end", session_id |-> session_id,
                                status_code |-> 200]
  /\ UNCHANGED <<db_app, workflow_calls, session_outside>>

\* no session has been started
InitSession ==
  /\ InitIdle
  /\ application_data \in {CHOOSE a \in Applications : TRUE}
  /\ all_results = <<>>

NextSession ==
  \/ start_chat
  \/ send_message
  \/ chat_process_application
  \/ end_session

SpecSession == InitSession /\ [][NextSession]_vars

(***************************************************************************)
(* An evaluator called twice on the same application, the random generator *)
(* seeded alike before each call, so that both calls make the same draws.  *)
(* The verdict carries processing_time_ms, read from the wall clock.       *)
(***************************************************************************)
\* processing_time = int((time.time() - start_time) * 1000): the whole
\* milliseconds an evaluation took by the wall clock
ProcessingTimes == {0, 1}

\* the AgentResult with its processing_time_ms
timed(res, processing_time) ==
  IF IsRaise(res) THEN res
  ELSE [f \in DOMAIN res \cup {"processing_time_ms"} |->
          IF f = "processing_time_ms" THEN processing_time ELSE res[f]]

\* evaluate(application) of the named evaluator, the generator giving the draws
evaluate(agent, application, draws) ==
  CASE agent = "AgentAlpha" -> AgentAlpha_evaluate(application)
    [] agent = "AgentBeta" -> AgentBeta_evaluate(application)
    [] agent = "AgentGamma" -> AgentGamma_evaluate(application, draws[1])
    [] agent = "AgentDelta" -> AgentDelta_evaluate(application, draws[1])
    [] agent = "AgentEpsilon" ->
         AgentEpsilon_evaluate(application, draws[1], draws[2], draws[3])

\* the calls: an evaluator and the draws the seeded generator gives it
Calls ==
  { [agent |-> a, draws |-> <<>>] : a \in {"AgentAlpha", "AgentBeta"} } \cup
  { [agent |-> "AgentGamma", draws |-> <<variance>>] : variance \in VarianceDraws } \cup
  { [agent |-> "AgentDelta", draws |-> <<stability_score>>] :
      stability_score \in StabilityDraws } \cup
  { [agent |-> "AgentEpsilon", draws |-> <<velocity_check, doc_score, blacklist_draw>>] :
      velocity_check \in VelocityDraws, doc_score \in DocDraws,
      blacklist_draw \in BlacklistDraws }

\* the draws of a generator that was not seeded again before the second call
unseeded_draws(c) ==
  CASE c.agent = "AgentGamma" -> <<SetMin(VarianceDraws)>>
    [] c.agent = "AgentDelta" -> <<SetMin(StabilityDraws)>>
    [] c.agent = "AgentEpsilon" ->
         <<SetMin(VelocityDraws), SetMin(DocDraws), SetMin(BlacklistDraws)>>
    [] OTHER -> <<>>

\* a call whose draws are those of the seed only the first time
evaluate_call_unseeded(c, application) ==
  evaluate(c.agent, application,
           IF result = NoResult THEN c.draws ELSE unseeded_draws(c))

\* one call: the evaluator reads the application and makes its draws
evaluate_call(c, application) == evaluate(c.agent, application, c.draws)

RepeatApplications ==
  { a \in Applications : /\ a.tenure = 60
                          /\ Len(a.pan) # 9
                          /\ Len(a.aadhaar) # 5
                          /\ Len(a.mobile) = 11 }

InitRepeat ==
  /\ InitIdle
  /\ application_data \in RepeatApplications
  /\ all_results = <<>>

first_call ==
  /\ result = NoResult
  /\ \E c \in Calls, processing_time \in ProcessingTimes :
       /\ result' = timed(evaluate_call(c, application_data), processing_time)
       /\ call' = c
  /\ UNCHANGED <<application_data, application_id, agent_results, agent_updates,
                 current_agent, status, final_decision, pc, executed, all_results,
                 repeated, loan_vars, pdf_outcome, runs, service_vars,
                 stream_vars>>

\* the same evaluator is called again on the same application, the generator
\* seeded as it was for the first call
evaluate_again ==
  /\ result # NoResult
  /\ repeated = NoResult
  /\ \E processing_time \in ProcessingTimes :
       repeated' = timed(evaluate_call(call, application_data), processing_time)
  /\ UNCHANGED <<application_data, application_id, agent_results, agent_updates,
                 current_agent, status, final_decision, pc, executed, all_results,
                 result, call, loan_vars, pdf_outcome, runs, service_vars,
                 stream_vars>>

NextRepeat ==
  \/ first_call
  \/ evaluate_again

SpecRepeat == InitRepeat /\ [][NextRepeat]_vars

(***************************************************************************)
(* Several runs of the six-evaluator workflow in progress at once, one per *)
(* request, their nodes interleaved.  Each invoke() has its own state      *)
(* dict; the compiled graph and the six evaluator objects are shared, and  *)
(* hold nothing a run writes.  A run's draws are the values its own calls  *)
(* of the random module return.                                            *)
(***************************************************************************)
MaxRuns == 2
RunIds == 1..MaxRuns

ConcurrentApplications ==
  { a \in Applications : /\ a.tenure = 60
                          /\ a.loan_amount = 500000
                          /\ a.income \in {12000, 100000}
                          /\ Len(a.pan) = 10
                          /\ Len(a.aadhaar) = 14
                          /\ Len(a.mobile) = 11 }

ConcurrentDraws ==
  { [variance |-> 0, stability_score |-> 100, velocity_check |-> 0,
     doc_score |-> 100, blacklist_draw |-> 0],
    [variance |-> -50, stability_score |-> 70, velocity_check |-> 96,
     doc_score |-> 70, blacklist_draw |-> 0],
    [variance |-> 50, stability_score |-> 100, velocity_check |-> 0,
     doc_score |-> 100, blacklist_draw |-> 99] }

\* initial_state of run_agent_workflow, with the draws the run is going to make
initial_run(application, draws) ==
  [application_data |-> application, draws |-> draws, agent_results |-> <<>>,
   agent_updates |-> <<>>, current_agent |-> "", status |-> "PROCESSING",
   final_decision |-> "", pc |-> "alpha"]

\* the evaluator call of a node
evaluate_node(node, application, draws, results) ==
  CASE node = "alpha" -> AgentAlpha_evaluate(application)
    [] node = "beta" -> AgentBeta_evaluate(application)
    [] node = "gamma" -> AgentGamma_evaluate(application, draws.variance)
    [] node = "delta" -> AgentDelta_evaluate(application, draws.stability_score)
    [] node = "epsilon" ->
         AgentEpsilon_evaluate(application, draws.velocity_check, draws.doc_score,
                               draws.blacklist_draw)
    [] node = "zeta" -> AgentZeta_evaluate(results)

\* the node after a component node
next_node(node) ==
  CASE node = "alpha" -> "beta"
    [] node = "beta" -> "gamma"
    [] node = "gamma" -> "delta"
    [] node = "delta" -> "epsilon"
    [] node = "epsilon" -> "zeta"

\* the state of a run after its node has returned res and the edge is taken
run_update(run, res) ==
  IF IsRaise(res) THEN [run EXCEPT !.pc = RAISED]
  ELSE IF run.pc = "zeta"
  THEN [run EXCEPT !.agent_results = add(@, <<res>>),
                   !.current_agent = "AgentZeta",
                   !.final_decision = res.decision,
                   !.status = final_status_of(res.decision),
                   !.agent_updates = add(@, <<update_of(res)>>),
                   !.pc = END]
  ELSE LET new_status == IF res.decision = REJECT THEN "FAIL" ELSE run.status
       IN  [run EXCEPT !.agent_results = add(@, <<res>>),
                       !.current_agent = res.agent_name,
                       !.agent_updates = add(@, <<update_of(res)>>),
                       !.status = new_status,
                       !.pc = conditional_edge(new_status, next_node(run.pc))]

\* one node of a run, on the run's own state
step_of(run) ==
  run_update(run, evaluate_node(run.pc, run.application_data, run.draws,
                                run.agent_results))

\* agent_workflow.invoke(initial_state) with nothing else running
RECURSIVE run_alone(_)
run_alone(run) ==
  IF run.pc \in {END, RAISED} THEN run
  ELSE CHOOSE out \in {run_alone(stepped) : stepped \in {step_of(run)}} : TRUE

\* a node whose evaluator reads the application of the run started last
run_step_shared_application(r) ==
  run_update(runs[r], evaluate_node(runs[r].pc, runs[MaxRuns].application_data,
                                    runs[r].draws, runs[r].agent_results))

\* one node of the run r
run_step(r) == step_of(runs[r])

InitConcurrent ==
  /\ application_data \in {CHOOSE a \in ConcurrentApplications : TRUE}
  /\ application_id = 0
  /\ agent_results = <<>>
  /\ agent_updates = <<>>
  /\ current_agent = ""
  /\ status = "PROCESSING"
  /\ final_decision = ""
  /\ pc = END
  /\ executed = <<>>
  /\ all_results = <<>>
  /\ result = NoResult
  /\ InitLoanIdle
  /\ pdf_outcome = NotCalled
  /\ InitDirectIdle
  /\ InitServiceIdle
  /\ InitStreamIdle
  /\ runs \in [RunIds -> {initial_run(a, d) : a \in ConcurrentApplications,
                                                d \in ConcurrentDraws}]

\* the event loop lets one of the runs execute its next node
concurrent_step ==
  /\ \E r \in RunIds :
       /\ runs[r].pc \notin {END, RAISED}
       /\ runs' = [runs EXCEPT ![r] = run_step(r)]
  /\ UNCHANGED <<application_data, application_id, agent_results, agent_updates,
                 current_agent, status, final_decision, pc, executed, all_results,
                 result, loan_vars, pdf_outcome, direct_vars, service_vars, stream_vars>>

NextConcurrent == concurrent_step

SpecConcurrent == InitConcurrent /\ [][NextConcurrent]_vars

(***************************************************************************)
(* api/streaming_routes.py: stream_agent_processing.  event_generator      *)
(* consumes run_agent_workflow_async, which consumes                       *)
(* agent_workflow.astream(initial_state); it yields events to the client   *)
(* and writes the Application row and the AgentEvaluation rows.  The       *)
(* source does not pass stream_mode to astream, so what a chunk holds is   *)
(* the library's choice: "updates" chunks are {node name: the node's       *)
(* update}, "values" chunks are the whole state after the step.            *)
(* A string that may be None is "None" here.                               *)
(***************************************************************************)
StreamModes == {"updates", "values"}

\* event.get("agent_updates", []) of a chunk
event_get_agent_updates(mode, state_agent_updates) ==
  IF mode = "values" THEN state_agent_updates ELSE <<>>

\* event.get("status", "FAIL") of the last chunk
event_get_status(mode, state_status) ==
  IF mode = "values" THEN state_status ELSE "FAIL"

\* event.get("final_decision") of the last chunk
event_get_final_decision(mode, state_final_decision) ==
  IF mode = "values" /\ state_final_decision # "" THEN state_final_decision
  ELSE "None"

\* event_generator.agents, by name
agents ==
  <<"AgentAlpha", "AgentBeta", "AgentGamma", "AgentDelta", "AgentEpsilon",
    "AgentZeta">>

\* application_data of event_generator: the columns of the row, with its id
StreamApplications ==
  { [f \in DOMAIN a \cup {"application_id"} |->
       IF f = "application_id" THEN 1 ELSE a[f]] :
    a \in { b \in Applications : /\ b.tenure = 60
                                  /\ b.loan_amount = 500000
                                  /\ b.income \in {12000, 100000}
                                  /\ Len(b.pan) = 10
                                  /\ Len(b.aadhaar) \in {1, 14}
                                  /\ Len(b.mobile) = 11 } }

\* db.commit() returns, or raises
CommitOutcomes == {"committed", "raised"}

InitStream ==
  /\ application_data \in StreamApplications
  /\ application_id = application_data.application_id
  /\ agent_results = <<>>
  /\ agent_updates = <<>>
  /\ current_agent = ""
  /\ status = "PROCESSING"
  /\ final_decision = ""
  /\ pc = "alpha"
  /\ executed = <<>>
  /\ all_results = <<>>
  /\ result = NoResult
  /\ InitLoanIdle
  /\ pdf_outcome = NotCalled
  /\ InitDirectIdle
  /\ InitServiceIdle
  /\ runs = <<>>
  /\ stream_mode \in StreamModes
  /\ pending = <<>>
  /\ yielded = <<>>
  /\ events = <<>>
  /\ final_status = "FAIL"
  /\ stream_decision = "None"
  /\ current_idx = 0
  /\ app = [status |-> "PENDING", current_agent |-> "None",
            final_decision |-> "None", sanction_pdf_path |-> None]
  /\ evaluations = <<>>
  /\ spc = "start"
  /\ db_failed = FALSE

\* the except branch of event_generator, entered with the events evs yielded:
\* the error event, then the row is set to FAIL and committed
stream_except(evs, commit_raised) ==
  /\ events' = Append(evs, [event |-> "error"])
  /\ \E outcome \in CommitOutcomes :
       app' = IF outcome = "committed"
              THEN [app EXCEPT !.status = "FAIL", !.current_agent = "None"]
              ELSE app
  /\ spc' = "done"
  /\ db_failed' = commit_raised

\* app.status = "PROCESSING"; db.commit()
stream_start ==
  /\ spc = "start"
  /\ \E outcome \in CommitOutcomes :
       IF outcome = "committed"
       THEN /\ app' = [app EXCEPT !.status = "PROCESSING"]
            /\ spc' = "loop"
            /\ UNCHANGED <<events, db_failed>>
       ELSE stream_except(events, TRUE)
  /\ UNCHANGED <<application_data, application_id, agent_results, agent_updates,
                 current_agent, status, final_decision, pc, executed, all_results,
                 result, loan_vars, pdf_outcome, direct_vars, service_vars, runs, stream_mode,
                 pending, yielded, final_status, stream_decision, current_idx,
                 evaluations>>

\* astream runs the next node and hands its chunk to run_agent_workflow_async
astream_step ==
  /\ spc = "loop"
  /\ pending = <<>>
  /\ \/ alpha_node
     \/ beta_node
     \/ gamma_node
     \/ delta_node
     \/ epsilon_node
     \/ zeta_node
  /\ pending' = IF pc' = RAISED THEN <<>>
                ELSE event_get_agent_updates(stream_mode, agent_updates')
  /\ UNCHANGED <<loan_vars, pdf_outcome, direct_vars, service_vars, runs, stream_mode, yielded,
                 events, final_status, stream_decision, current_idx, app,
                 evaluations, spc, db_failed>>

\* run_agent_workflow_async yields the next update of the chunk; the loop
\* body of event_generator handles it
handle_update ==
  /\ spc = "loop"
  /\ pending # <<>>
  /\ LET update == Head(pending)
         started == IF current_idx < Len(agents)
                    THEN <<[event |-> "agent_start", agent |-> agents[current_idx + 1]]>>
                    ELSE <<>>
         evs == events \o started \o <<[event |-> "agent_complete", update |-> update]>>
     IN  /\ yielded' = Append(yielded, update)
         /\ \E raised_at \in {0, 146, 150} :
              /\ evaluations' = IF raised_at = 146 THEN evaluations
                                ELSE Append(evaluations, update.result.agent_name)
              /\ IF raised_at = 0
                 THEN /\ events' = evs
                      /\ app' = [app EXCEPT !.current_agent = update.agent]
                      /\ current_idx' = current_idx + 1
                      /\ IF update.result.decision = REJECT
                         THEN /\ final_status' = "REJECTED"
                              /\ pending' = <<>>
                              /\ spc' = "after_loop"
                         ELSE /\ pending' = Tail(pending)
                              /\ UNCHANGED <<final_status, spc>>
                      /\ UNCHANGED db_failed
                 ELSE /\ stream_except(evs, TRUE)
                      /\ pending' = <<>>
                      /\ UNCHANGED <<current_idx, final_status>>
  /\ UNCHANGED <<application_data, application_id, agent_results, agent_updates,
                 current_agent, status, final_decision, pc, executed, all_results,
                 result, loan_vars, pdf_outcome, direct_vars, service_vars, runs, stream_mode,
                 stream_decision>>

\* astream is exhausted: run_agent_workflow_async yields its terminal record
\* from the last chunk, event_generator takes status and decision from it
workflow_complete ==
  /\ spc = "loop"
  /\ pending = <<>>
  /\ pc = END
  /\ LET terminal == [type |-> "complete",
                      status |-> event_get_status(stream_mode, status),
                      final_decision |->
                        event_get_final_decision(stream_mode, final_decision)]
     IN  /\ yielded' = Append(yielded, terminal)
         /\ final_status' = terminal.status
         /\ stream_decision' = terminal.final_decision
  /\ spc' = "after_loop"
  /\ UNCHANGED <<application_data, application_id, agent_results, agent_updates,
                 current_agent, status, final_decision, pc, executed, all_results,
                 result, loan_vars, pdf_outcome, direct_vars, service_vars, runs, stream_mode,
                 pending, events, current_idx, app, evaluations, db_failed>>

\* an evaluator has raised: the exception leaves astream and
\* run_agent_workflow_async and reaches the except branch
stream_raise ==
  /\ spc = "loop"
  /\ pc = RAISED
  /\ stream_except(events, db_failed)
  /\ UNCHANGED <<application_data, application_id, agent_results, agent_updates,
                 current_agent, status, final_decision, pc, executed, all_results,
                 result, loan_vars, pdf_outcome, direct_vars, service_vars, runs, stream_mode,
                 pending, yielded, final_status, stream_decision, current_idx,
                 evaluations>>

\* the status persisted and reported after the PDF step: the except branch of
\* the inner try prints the error and leaves final_status as it is
stream_outcome(outcome) == final_status

\* after the loop: the sanction letter if SANCTIONED, the final write of the
\* row, the complete event
stream_finish ==
  /\ spc = "after_loop"
  /\ \E outcome \in IF final_status = "SANCTIONED" THEN PdfOutcomes ELSE {NotCalled},
        committed \in CommitOutcomes :
       LET url == IF outcome = PdfOk
                  THEN <<"/pdfs/", application_data.application_id, ".pdf">>
                  ELSE None
       IN  /\ pdf_outcome' = outcome
           /\ sanction_pdf_url' = url
           /\ IF committed = "committed"
              THEN /\ app' = [status |-> stream_outcome(outcome),
                              final_decision |-> stream_decision,
                              current_agent |-> "None",
                              sanction_pdf_path |->
                                IF outcome = PdfOk THEN url ELSE app.sanction_pdf_path]
                   /\ events' = Append(events,
                                       [event |-> "complete",
                                        status |-> stream_outcome(outcome),
                                        final_decision |-> stream_decision,
                                        sanction_pdf_url |-> url])
                   /\ spc' = "done"
                   /\ UNCHANGED db_failed
              ELSE stream_except(events, TRUE)
  /\ UNCHANGED <<application_data, application_id, agent_results, agent_updates,
                 current_agent, status, final_decision, pc, executed, all_results,
                 result, steps, credit_score, error_message, direct_vars, service_vars, runs,
                 stream_mode, pending, yielded, final_status, stream_decision,
                 current_idx, evaluations>>

\* the requests to the stream of one application after the first
MaxStreams == 1

\* if app.status in ["SANCTIONED", "REJECTED"]: the stream of such a row is
\* the single complete event of already_processed()
stream_refused(row) == row.status \in {"SANCTIONED", "REJECTED"}

\* GET /stream/{application_id} again, after the stream before it has ended:
\* a new event_generator and a new run, on the row and the AgentEvaluation
\* rows as they are stored
stream_again ==
  /\ spc = "done"
  /\ served < MaxStreams
  /\ served' = served + 1
  /\ IF stream_refused(app)
     THEN /\ events' = <<[event |-> "complete", status |-> app.status,
                          sanction_pdf_url |-> app.sanction_pdf_path]>>
          /\ UNCHANGED <<agent_results, agent_updates, current_agent, status,
                         final_decision, pc, executed, pending, yielded,
                         final_status, stream_decision, current_idx, spc, db_failed,
                         pdf_outcome, sanction_pdf_url>>
     ELSE /\ agent_results' = <<>>
          /\ agent_updates' = <<>>
          /\ current_agent' = ""
          /\ status' = "PROCESSING"
          /\ final_decision' = ""
          /\ pc' = "alpha"
          /\ executed' = <<>>
          /\ pending' = <<>>
          /\ yielded' = <<>>
          /\ events' = <<>>
          /\ final_status' = "FAIL"
          /\ stream_decision' = "None"
          /\ current_idx' = 0
          /\ spc' = "start"
          /\ db_failed' = FALSE
          /\ pdf_outcome' = NotCalled
          /\ sanction_pdf_url' = None
  /\ UNCHANGED <<application_data, application_id, all_results, result, steps,
                 credit_score, error_message, direct_vars, db_app, response,
                 workflow_calls, status_history, chat_vars, runs, stream_mode, app,
                 evaluations>>

NextStream ==
  \/ stream_start
  \/ astream_step
  \/ handle_update
  \/ workflow_complete
  \/ stream_raise
  \/ stream_finish
  \/ stream_again

SpecStream == InitStream /\ [][NextStream]_vars

(***************************************************************************)
(* The properties.                                                         *)
(***************************************************************************)
ComponentNames == {AgentOrder[i] : i \in 1..Len(AgentOrder)}
NodeOrder == <<"alpha", "beta", "gamma", "delta", "epsilon", "zeta">>
PipelineNames == AgentOrder \o <<"AgentZeta">>

HasReject(list) == \E i \in 1..Len(list) : list[i].decision = REJECT
NumReviews(list) == Cardinality({i \in 1..Len(list) : list[i].decision = REVIEW})
Evaluated == result # NoResult

\* the threshold function of the data model
ThresholdOf(score) ==
  CASE score >= 70 -> APPROVE
    [] score >= 50 /\ score < 70 -> REVIEW
    [] OTHER -> REJECT

\* the weight table in hundredths, and the exact weighted sum and total weight
WeightPct(name) ==
  CASE name = "AgentAlpha" -> 15
    [] name = "AgentBeta" -> 20
    [] name = "AgentGamma" -> 25
    [] name = "AgentDelta" -> 15
    [] name = "AgentEpsilon" -> 25
    [] OTHER -> 10

RECURSIVE ExactSum(_, _)
ExactSum(list, i) ==
  IF i > Len(list) THEN 0
  ELSE list[i].score * WeightPct(list[i].agent_name) + ExactSum(list, i + 1)

RECURSIVE ExactWeight(_, _)
ExactWeight(list, i) ==
  IF i > Len(list) THEN 0
  ELSE WeightPct(list[i].agent_name) + ExactWeight(list, i + 1)

\* C1: in a six-evaluator run, once one of the first five evaluators has
\* returned REJECT, its verdict is the last one, no later node has been called
\* (call count = its position), the status is FAIL and the run has ended
C1_ShortCircuit ==
  \A i \in 1..Len(agent_results) :
    (agent_results[i].agent_name \in ComponentNames
       /\ agent_results[i].decision = REJECT)
    => /\ Len(agent_results) = i
       /\ Len(executed) = i
       /\ status = "FAIL"
       /\ pc = END

\* a run that the third evaluator ended
C1_Witness ==
  /\ Len(agent_results) = 3
  /\ agent_results[3].decision = REJECT
  /\ executed = <<"alpha", "beta", "gamma">>
  /\ pc = END

\* C2: a verdict list with at least one REJECT makes the aggregator return
\* REJECT, with the least score among the rejecting verdicts as its score
C2_VetoLaw ==
  (Evaluated /\ HasReject(all_results))
  => /\ result.decision = REJECT
     /\ \E i \in 1..Len(all_results) :
          /\ all_results[i].decision = REJECT
          /\ result.score = all_results[i].score
     /\ \A i \in 1..Len(all_results) :
          all_results[i].decision = REJECT => result.score <= all_results[i].score

\* five APPROVE verdicts at 100 and one REJECT at 40 give REJECT with score 40
C2_Witness ==
  /\ Evaluated
  /\ Len(all_results) = 6
  /\ \A i \in 1..5 : all_results[i].score = 100 /\ all_results[i].decision = APPROVE
  /\ all_results[6].score = 40 /\ all_results[6].decision = REJECT
  /\ result.decision = REJECT /\ result.score = 40

\* C3: a verdict list without a REJECT, the empty list included, never makes
\* the aggregator return REJECT; with a weighted score below 70 it returns REVIEW
C3_NoRejectWithoutVeto ==
  (Evaluated /\ ~HasReject(all_results))
  => /\ result.decision # REJECT
     /\ FLT(result.weighted_score, FFromInt(70)) => result.decision = REVIEW

\* a single verdict with score 0 that is not a REJECT: weighted score 0, REVIEW
C3_Witness ==
  /\ Evaluated
  /\ Len(all_results) = 1
  /\ all_results[1].score = 0
  /\ ~HasReject(all_results)
  /\ result.score = 0
  /\ result.decision = REVIEW

\* C4: two or more REVIEW verdicts and no REJECT make the aggregator return
\* REVIEW, whatever the weighted score
C4_ReviewEscalation ==
  (Evaluated /\ NumReviews(all_results) >= 2 /\ ~HasReject(all_results))
  => result.decision = REVIEW

\* two REVIEW verdicts with a weighted score of 70 or more
C4_Witness ==
  /\ Evaluated
  /\ NumReviews(all_results) >= 2
  /\ ~HasReject(all_results)
  /\ FGE(result.weighted_score, FFromInt(70))
  /\ result.decision = REVIEW

\* C5: the aggregator returns APPROVE exactly when the list has no REJECT, at
\* most one REVIEW, and the weighted score it computed is at least 70; a list
\* with exactly one REVIEW and no REJECT is approved at 70 or more and sent to
\* REVIEW below 70
C5_ApproveExactly ==
  Evaluated
  => /\ result.decision = APPROVE
        <=> /\ ~HasReject(all_results)
            /\ NumReviews(all_results) <= 1
            /\ FGE(result.weighted_score, FFromInt(70))
     /\ (NumReviews(all_results) = 1 /\ ~HasReject(all_results))
        => result.decision = IF FGE(result.weighted_score, FFromInt(70))
                             THEN APPROVE ELSE REVIEW

\* exactly one REVIEW, weighted score at least 70: approved
C5_Witness ==
  /\ Evaluated
  /\ NumReviews(all_results) = 1
  /\ ~HasReject(all_results)
  /\ FGE(result.weighted_score, FFromInt(70))
  /\ result.decision = APPROVE

\* C6: for a non-empty list the weighted score is the sum of score * weight
\* over the sum of weight, over the verdicts present: the double the aggregator
\* computes is within 2^-40 of that quotient
C6_WeightedScoreLaw ==
  (Evaluated /\ all_results # <<>>)
  => LET d == ExactWeight(all_results, 1)
         lhs == BigMulSmall(result.weighted_score, d)
         rhs == BigMulInt(FFromInt(1), ExactSum(all_results, 1))
         tol == BigMulSmall(<<2^17, 0, 0, 0>>, d)
     IN  BigGE(BigAdd(rhs, tol), lhs) /\ BigGE(BigAdd(lhs, tol), rhs)

\* a partial list: the first two component verdicts only, scores 70 and 100
C6_Witness ==
  /\ Evaluated
  /\ Len(all_results) = 2
  /\ all_results[1].agent_name = "AgentAlpha" /\ all_results[1].score = 70
  /\ all_results[2].agent_name = "AgentBeta" /\ all_results[2].score = 100
  /\ result.score = (70 * 15 + 100 * 20) \div 35

\* C7 as stated: the confidence is min(95, the weighted score rounded to a
\* nearest integer) for a non-empty list, and 0 for the empty list
C7_ConfidenceRounded ==
  Evaluated
  => IF all_results = <<>> THEN result.confidence = 0
     ELSE LET n == ExactSum(all_results, 1)
              d == ExactWeight(all_results, 1)
          IN  \E r \in 0..100 :
                /\ 2 * r * d - 2 * n <= d
                /\ 2 * n - 2 * r * d <= d
                /\ result.confidence = Min(95, r)

\* C7 amended: the confidence is min(95, the weighted score truncated to an
\* integer): the integer part of the exact quotient, or one less than it when
\* the quotient is an integer; and 0 for the empty list
C7_ConfidenceTruncated ==
  Evaluated
  => IF all_results = <<>> THEN result.confidence = 0
     ELSE LET n == ExactSum(all_results, 1)
              d == ExactWeight(all_results, 1)
          IN  \/ result.confidence = Min(95, n \div d)
              \/ /\ n % d = 0
                 /\ n \div d >= 1
                 /\ result.confidence = Min(95, (n \div d) - 1)

\* a weighted score with a fractional part above one half, below the cap
C7_Witness ==
  /\ Evaluated
  /\ all_results # <<>>
  /\ LET n == ExactSum(all_results, 1)
         d == ExactWeight(all_results, 1)
     IN  2 * (n % d) > d /\ result.confidence = n \div d /\ n \div d < 94

\* C8: every component evaluator returns a score in 0..100 and the decision
\* that is the threshold function of that score
C8_ScoreAndThreshold ==
  (Evaluated /\ result.agent_name \in ComponentNames)
  => /\ result.score \in 0..100
     /\ result.decision = ThresholdOf(result.score)

\* the fraud evaluator on a blacklist hit
C8_Witness ==
  /\ Evaluated
  /\ result.agent_name = "AgentEpsilon"
  /\ result.score = 10
  /\ result.decision = REJECT

\* C9: the aggregator runs only after the five component evaluators, is the
\* last node of the run, and the status is the image of its decision under
\* APPROVE -> SANCTIONED, REJECT -> REJECTED, REVIEW -> MANUAL_REVIEW
C9_AggregatorLast ==
  /\ pc = "zeta" => executed = SubSeq(NodeOrder, 1, 5)
  /\ final_status_of(APPROVE) = "SANCTIONED"
  /\ final_status_of(REJECT) = "REJECTED"
  /\ final_status_of(REVIEW) = "MANUAL_REVIEW"
  /\ (\E i \in 1..Len(executed) : executed[i] = "zeta")
     => /\ executed = NodeOrder
        /\ pc = END
        /\ Len(agent_results) = 6
        /\ agent_results[6].agent_name = "AgentZeta"
        /\ status \in {"SANCTIONED", "REJECTED", "MANUAL_REVIEW"}
        /\ agent_results[6].decision = APPROVE => status = "SANCTIONED"
        /\ agent_results[6].decision = REJECT => status = "REJECTED"
        /\ agent_results[6].decision = REVIEW => status = "MANUAL_REVIEW"

\* a run the aggregator sent to manual review
C9_Witness ==
  /\ executed = NodeOrder
  /\ agent_results[6].decision = REVIEW
  /\ status = "MANUAL_REVIEW"

\* C10: agent_results always holds the verdicts of a prefix of Alpha, Beta,
\* Gamma, Delta, Epsilon, Zeta, one per evaluator that has run, and a step
\* leaves it alone or appends one verdict to it
C10_PrefixAppendOnly ==
  /\ [](/\ Len(agent_results) <= Len(PipelineNames)
        /\ Len(agent_results) = Len(executed)
        /\ \A i \in 1..Len(agent_results) :
             agent_results[i].agent_name = PipelineNames[i])
  /\ [][\/ agent_results' = agent_results
        \/ /\ Len(agent_results') = Len(agent_results) + 1
           /\ SubSeq(agent_results', 1, Len(agent_results)) = agent_results]_vars

\* a run with all six verdicts
C10_Witness ==
  /\ Len(agent_results) = 6
  /\ agent_results[1].agent_name = "AgentAlpha"
  /\ agent_results[6].agent_name = "AgentZeta"

\* C11 as stated: when a component evaluator raises an unexpected error, the
\* error never reaches the caller of the run: the run goes on with a REJECT
\* verdict for that evaluator appended (here the KYC evaluator, the one the
\* inputs of the model can make raise)
C11_FaultCaught ==
  /\ pc # RAISED
  /\ (IsRaise(AgentBeta_evaluate(application_data)) /\ pc \notin {"alpha", "beta"}
        /\ Len(agent_results) >= 1 /\ agent_results[1].decision # REJECT)
     => /\ Len(agent_results) >= 2
        /\ agent_results[2].agent_name = "AgentBeta"
        /\ agent_results[2].decision = REJECT

FinalStatuses == {"FAIL", "REJECTED", "MANUAL_REVIEW", "SANCTIONED"}
LoanNodes == <<"sales", "verification", "underwriting", "sanction">>

C13_LoanShortCircuit ==
  /\ Len(steps) <= Len(LoanNodes)
  /\ \A i \in 1..Len(steps) : steps[i].node = LoanNodes[i]
  /\ \A i \in 1..Len(steps) :
       (i <= 3 /\ steps[i].result = "FAIL")
       => /\ Len(steps) = i
          /\ status = "FAIL"
          /\ pc = END
          /\ pdf_outcome = NotCalled
  /\ (pc = "sanction" \/ Len(steps) = 4 \/ pdf_outcome # NotCalled)
     => /\ Len(steps) >= 3
        /\ \A i \in 1..3 : steps[i].result = "SUCCESS"

\* a run that underwriting ended
C13_Witness ==
  /\ pc = END
  /\ Len(steps) = 3
  /\ steps[3] = [node |-> "underwriting", result |-> "FAIL"]
  /\ status = "FAIL"

\* C14: when generate_sanction_letter fails in the sanction node, the run ends
\* (not raised, not retried) with status FAIL, no sanction_pdf_url, one FAIL
\* step of the sanction node as the last step, and an error_message that holds
\* the text of the failure
C14_SanctionFailure ==
  pdf_outcome \in PdfFailures
  => /\ pc = END
     /\ status = "FAIL"
     /\ sanction_pdf_url = None
     /\ Len(steps) = 4
     /\ steps[4] = [node |-> "sanction", result |-> "FAIL"]
     /\ error_message # None
     /\ \E i \in 1..Len(error_message) : error_message[i] = pdf_outcome

\* a run whose document generation failed with OSError
C14_Witness ==
  /\ pdf_outcome = "OSError"
  /\ status = "FAIL"
  /\ Len(steps) = 4
  /\ steps[4].result = "FAIL"

\* C16: no step of a six-evaluator run changes the application snapshot
\* (application_data and application_id); what a step changes of the run's
\* state is among agent_results, agent_updates, current_agent, status and
\* final_decision
C16_SnapshotFrozen ==
  [][/\ application_data' = application_data
     /\ application_id' = application_id
     /\ UNCHANGED <<all_results, result, outside_vars>>]_vars

C16_Witness ==
  /\ pc = END
  /\ executed = NodeOrder
  /\ Len(agent_results) = 6
  /\ application_data.pan # upper(application_data.pan)

SansTime(res) == [f \in DOMAIN res \ {"processing_time_ms"} |-> res[f]]

IsPrefix(a, b) == Len(a) <= Len(b) /\ SubSeq(b, 1, Len(a)) = a

C19_OneUpdatePerEvaluator ==
  LET n == Len(yielded)
  IN  (n > 0 /\ "type" \in DOMAIN yielded[n]) =>
        /\ n = Len(agent_results) + 1
        /\ \A i \in 1..(n - 1) :
             /\ "result" \in DOMAIN yielded[i]
             /\ yielded[i].result = agent_results[i]
        /\ yielded[n].status = status

C20_PersistenceFireAndForget ==
  (spc = "done" /\ db_failed) =>
    /\ events[Len(events)].event = "complete"
    /\ pc = END \/ final_status = "REJECTED"

\* the field is missing from the application of the call
Missing(field) == field \notin DOMAIN application_data

\* the explanation of the verdict has the message
Named(text) == \E i \in 1..Len(result.explanation) : result.explanation[i] = text

\* the messages of a verdict with no issue
SuccessMessages ==
  {"Application validated successfully", "KYC verification successful",
   "Credit assessment passed", "Income verified", "No fraud indicators detected"}

\* the fields an evaluator reads
ReadsOf(name) ==
  CASE name = "AgentAlpha" -> {"income", "loan_amount", "tenure"}
    [] name = "AgentBeta" -> {"pan", "aadhaar", "mobile"}
    [] name = "AgentGamma" -> {"income", "loan_amount", "tenure"}
    [] name = "AgentDelta" -> {"income", "loan_amount"}
    [] name = "AgentEpsilon" -> {"income", "loan_amount"}

\* the application with an income at which the sales evaluator has no
\* income penalty (the annual income is above the loan amount)
WithComfortableIncome(a) ==
  [f \in DOMAIN a \cup {"income"} |->
     IF f = "income" THEN (get(a, "loan_amount", 0) \div 12) + 1 ELSE a[f]]

IncomeRatioPenalty ==
  IF Missing("income") \/ application_data.income <= 0 THEN 40
  ELSE IF application_data.loan_amount > 5 * (12 * application_data.income) THEN 30
  ELSE IF application_data.loan_amount > 4 * (12 * application_data.income) THEN 15
  ELSE 0

TenurePenalty ==
  IF application_data.tenure < 6 THEN 25
  ELSE IF application_data.tenure > 360 THEN 15
  ELSE 0

PrincipalPenalty ==
  IF application_data.loan_amount < 10000 THEN 30
  ELSE IF application_data.loan_amount > 50000000 THEN 20
  ELSE 0

\* C22: the sales score is 100 minus the income-ratio, tenure and principal
\* penalties, each applied whatever the other two are; principal 5,000,000,
\* tenure 60 and monthly income 100,000 give 85 and APPROVE
C22_SalesScoreAdditive ==
  (Evaluated /\ result.agent_name = "AgentAlpha") =>
    /\ result.score = 100 - IncomeRatioPenalty - TenurePenalty - PrincipalPenalty
    /\ application_data = [income |-> 100000, loan_amount |-> 5000000, tenure |-> 60] =>
         (result.score = 85 /\ result.decision = APPROVE)

\* the three penalties at once: income missing, tenure 361, principal 50,000,001
C22_Witness ==
  /\ Evaluated
  /\ result.agent_name = "AgentAlpha"
  /\ application_data = [loan_amount |-> 50000001, tenure |-> 361]
  /\ result.score = 25

\* the well-formed values among the inputs: a PAN of five letters, four
\* digits and a letter, an Aadhaar of twelve digits and a contact number of
\* ten digits, spaces and hyphens apart
WellFormedPans ==
  { <<"a", "b", "c", "d", "e", "1", "2", "3", "4", "f">>,
    <<"A", "B", "C", "D", "E", "1", "2", "3", "4", "F">> }
WellFormedAadhaars ==
  { <<"1", "2", "3", "4", " ", "5", "6", "7", "8", " ", "9", "0", "1", "2">>,
    <<"1", "2", "3", "4", "-", "5", "6", "7", "8", "-", "9", "0", "1", "2">> }
WellFormedMobiles ==
  { <<"9", "8", "7", "6", "5", "-", "4", "3", "2", "1", "0">>,
    <<"9", "8", "7", "6", "5", "4", "3", "2", "1", "0">> }

PanFails == Missing("pan") \/ application_data.pan \notin WellFormedPans
AadhaarFails == Missing("aadhaar") \/ application_data.aadhaar \notin WellFormedAadhaars
ContactFails == Missing("mobile") \/ application_data.mobile \notin WellFormedMobiles

BlacklistHit == call.draws[3] > 98

\* C24: a blacklist hit makes the fraud verdict score 10 and REJECT, whatever
\* the income, the loan amount and the other two draws are
C24_BlacklistVeto ==
  (Evaluated /\ result.agent_name = "AgentEpsilon" /\ BlacklistHit) =>
    /\ result.score = 10
    /\ result.decision = REJECT

\* a hit together with every other penalty: a round income, a loan above a
\* hundred incomes, a velocity above 0.95 and a document score below 75
C24_Witness ==
  /\ Evaluated
  /\ BlacklistHit
  /\ application_data.income = 20000
  /\ application_data.loan_amount = 60000000
  /\ call.draws[1] > 95
  /\ call.draws[2] < 75
  /\ result.score = 10

\* the run is on an application with a monthly income of 0
IncomeZero == application_data.income = 0

ConfidenceCap(name) ==
  CASE name = "AgentAlpha" -> 95
    [] name = "AgentBeta" -> 98
    [] name = "AgentGamma" -> 90
    [] name = "AgentDelta" -> 85
    [] name = "AgentEpsilon" -> 92

\* C26: the confidence of every verdict of a run is in 0..100, and that of a
\* component evaluator is the smaller of its cap and the score it returned
C26_ConfidenceCapped ==
  \A i \in 1..Len(agent_results) :
    LET verdict == agent_results[i]
    IN  /\ verdict.confidence \in 0..100
        /\ verdict.agent_name \in ComponentNames =>
             verdict.confidence =
               (IF verdict.score < ConfidenceCap(verdict.agent_name)
                THEN verdict.score ELSE ConfidenceCap(verdict.agent_name))

\* a capped confidence (sales, score 100) beside an uncapped one (KYC, score
\* 60) and the aggregator's
C26_Witness ==
  /\ Len(agent_results) = 6
  /\ agent_results[1].score = 100
  /\ agent_results[1].confidence = 95
  /\ agent_results[2].score = 60
  /\ agent_results[2].confidence = 60
  /\ agent_results[6].agent_name = "AgentZeta"
  /\ agent_results[6].confidence \in 0..100

\* C27 as stated: the agent_start event of an evaluator is in the stream
\* before that evaluator is evaluated, so whenever an evaluator has returned
\* its verdict its agent_start event has been emitted
C27_StartBeforeEvaluation ==
  \A j \in 1..Len(agent_results) :
    \E i \in 1..Len(events) :
      /\ events[i].event = "agent_start"
      /\ events[i].agent = agent_results[j].agent_name

\* C28: a process request served while the stored status is SANCTIONED
\* answers with the stored status, document reference and steps, calls no
\* workflow and leaves the row as it is; after a process request it gives the
\* same response again
C28_SanctionedIsReturned ==
  [][(db_app.status = "SANCTIONED" /\ served' # served /\ response'.request = "process")
       => /\ response' = [request |-> "process",
                          status |-> db_app.status,
                          sanction_pdf_url |-> db_app.sanction_pdf_path,
                          steps |-> db_app.workflow_steps,
                          error_message |-> None]
          /\ db_app' = db_app
          /\ workflow_calls' = workflow_calls
          /\ response.request = "process" => response' = response]_vars

\* three process requests and no override: the first ran the workflow and
\* sanctioned, the two after it were answered from the row
C28_Witness ==
  /\ served = 3
  /\ status_history = <<>>
  /\ workflow_calls = 1
  /\ db_app.status = "SANCTIONED"
  /\ Len(db_app.workflow_steps) = 4
  /\ response.steps = db_app.workflow_steps

\* C29 as stated: every step that changes the stored status of the
\* application appends the status_history row with the status before and the
\* status after the change
C29_TransitionsRecorded ==
  [][db_app.status' # db_app.status
       => status_history' = Append(status_history,
                                   [old_status |-> db_app.status,
                                    new_status |-> db_app.status'])]_vars

\* how many times the node is in the run so far
TimesExecuted(node) == Cardinality({i \in 1..Len(executed) : executed[i] = node})

\* C30: a run of the chat workflow ends, and when it has ended the result
\* node has run exactly once, as the last node, whether the run failed at
\* sales, verification or underwriting or went through sanction;
\* processing_complete is true and the final response is the approval
\* message exactly when the status is SANCTIONED
C30_ResultNodeLast ==
  /\ [](TimesExecuted("result") <= 1)
  /\ [](pc = END =>
          /\ executed # <<>>
          /\ executed[Len(executed)] = "result"
          /\ TimesExecuted("result") = 1
          /\ SubSeq(executed, 1, Len(executed) - 1) \in
               { <<"sales">>, <<"sales", "verification">>,
                 <<"sales", "verification", "underwriting">>,
                 <<"sales", "verification", "underwriting", "sanction">> }
          /\ processing_complete
          /\ final_response = ApprovalMessage <=> status = "SANCTIONED"
          /\ final_response \in {ApprovalMessage, RegretMessage})
  /\ <>(pc = END)

\* a run that the underwriting node failed: the result node follows it
C30_Witness ==
  /\ pc = END
  /\ executed = <<"sales", "verification", "underwriting", "result">>
  /\ status = "FAIL"
  /\ processing_complete
  /\ final_response = RegretMessage

\* where the REJECT verdicts are in a verdict list
RejectsIn(list) == {i \in 1..Len(list) : list[i].decision = REJECT}

\* C32: the aggregator of a six-evaluator run is reached only with a verdict
\* list of five verdicts none of which is a REJECT, so it does not return
\* REJECT, and a run that has ended has a status among FAIL, SANCTIONED and
\* MANUAL_REVIEW: never REJECTED
C32_NeverRejected ==
  /\ pc = "zeta" => Len(agent_results) = 5 /\ RejectsIn(agent_results) = {}
  /\ final_decision # REJECT
  /\ status # "REJECTED"
  /\ pc = END => status \in {"FAIL", "SANCTIONED", "MANUAL_REVIEW"}
  /\ (pc = END /\ status = "FAIL") => "zeta" \notin {executed[i] : i \in 1..Len(executed)}

\* a run that the aggregator ended, with REVIEW and so MANUAL_REVIEW
C32_Witness ==
  /\ pc = END
  /\ executed = NodeOrder
  /\ final_decision = REVIEW
  /\ status = "MANUAL_REVIEW"

\* C33: in every reachable state of a six-evaluator run the verdict list
\* holds at most one REJECT verdict; if it holds one, that verdict is the
\* last of the list and the status of the run is FAIL
C33_AtMostOneReject ==
  /\ Cardinality(RejectsIn(agent_results)) <= 1
  /\ RejectsIn(agent_results) # {}
       => /\ RejectsIn(agent_results) = {Len(agent_results)}
          /\ status = "FAIL"

\* the fourth evaluator rejected after three that did not
C33_Witness ==
  /\ Len(agent_results) = 4
  /\ RejectsIn(agent_results) = {4}
  /\ status = "FAIL"
  /\ pc = END

\* the stream has ended with its complete event
StreamCompleted ==
  /\ spc = "done"
  /\ events # <<>>
  /\ events[Len(events)].event = "complete"

\* C34: for the same application and the same draws, the terminal status
\* that the streaming endpoint stores in the row and reports in its complete
\* event is the status the run of the graph ended with, which is what
\* run_agent_workflow returns, a run ended by a REJECT included
C34_StreamStatusIsSyncStatus ==
  (StreamCompleted /\ pc = END)
  => /\ events[Len(events)].status = status
     /\ app.status = status

\* the nodes that the step records of a list name, in the order of the list
NodesOf(list) == [i \in 1..Len(list) |-> list[i].node]

\* C35: at the end of a run of the chat workflow the steps list has one step
\* record for each validation node that ran (every node of the run but the
\* result node), in the order they ran and none of them twice, and it is the
\* steps list of the sequential workflow for the same application
C35_ChatStepsOncePerNode ==
  pc = END
  => /\ NodesOf(steps) = SubSeq(executed, 1, Len(executed) - 1)
     /\ steps = run_loan_workflow(application_data,
                                  IF pdf_outcome = NotCalled THEN PdfOk
                                  ELSE pdf_outcome).steps

\* C36: a row whose stored status is REJECTED is not made SANCTIONED by a
\* request to the processing endpoint; a step that changes the status of a
\* REJECTED row is an override by an employee
C36_RejectedNotSanctionedByProcessing ==
  [][db_app.status = "REJECTED"
       => /\ (served' # served /\ response'.request = "process")
               => db_app'.status # "SANCTIONED"
          /\ db_app'.status # "REJECTED" => response'.request = "override"]_vars

\* how many of the stored AgentEvaluation rows are of the evaluator
StoredOf(name) == Cardinality({i \in 1..Len(evaluations) : evaluations[i] = name})

Serves(request) == served' # served /\ response'.request = request

\* C31: a message sent to a session that has been ended, or to a session
\* that does not exist, is answered with an error (400 or 404), and the call
\* leaves the session as it is: its messages, its collected data and its
\* stage
C31_MessageToEndedSessionRejected ==
  [][(Serves("message")
        /\ \/ get_session(response'.session_id) = NoSession
           \/ ~get_session(response'.session_id).is_active)
       => /\ response'.status_code \in {400, 404}
          /\ response'.raised = "HTTPException"
          /\ session' = session]_vars

\* a message to the session after it was started and ended: refused, and the
\* session still has the greeting alone
C31_Witness ==
  /\ response = [request |-> "message", session_id |-> "s1", status_code |-> 400,
                 raised |-> "HTTPException"]
  /\ session # NoSession
  /\ ~session.is_active
  /\ session.messages = <<Message("assistant", "greeting")>>
  /\ session.stage = "greeting"
  /\ session.collected_data = <<>>

\* the session has been ended
Ended == session # NoSession /\ ~session.is_active

\* C38: once the session has been ended, no chat request changes its
\* messages, its stage, its application id or its processing result, and a
\* request to process it is refused and stores no application
C38_EndedSessionFrozen ==
  [][Ended
       => /\ session'.messages = session.messages
          /\ session'.stage = session.stage
          /\ session'.application_id = session.application_id
          /\ session'.processing_result = session.processing_result
          /\ (Serves("process") /\ response'.session_id = "s1")
               => /\ response'.status_code # 200
                  /\ db_app' = db_app]_vars

====
